---------------------------- MODULE Spec2Model ----------------------------
(***************************************************************************)
(* A model of the arithmetic core of snarkVM: polynomial long division     *)
(* (algorithms/src/fft/polynomial/mod.rs) and the circuit environment with *)
(* the Field and Integer gadgets built on it (circuits/...).               *)
(*                                                                         *)
(* The prime field is scaled down to a 10-bit prime; integers are scaled   *)
(* down to IntBits bits.  Every gadget is a pure operator that takes the   *)
(* circuit (the environment's state) and returns the circuit after the     *)
(* call together with the value returned, or a halt.                       *)
(***************************************************************************)
EXTENDS Integers, Sequences, FiniteSets, TLC

VARIABLES
    dividend,   \* `self` of divide_with_q_and_r
    divisor,    \* `divisor` of divide_with_q_and_r
    quotient,   \* the local `quotient` (a coefficient vector), then the returned quotient
    remainder,  \* the local `remainder`, then the returned remainder
    dpc,        \* position in divide_with_q_and_r: "call", "loop", "done", "panic", "idle"
    circuit,    \* the environment: counters and the recorded gates
    call,       \* the gadget call under way: its name and operands
    outcome     \* what the gadget call produced: a value, or a halt

vars == <<dividend, divisor, quotient, remainder, dpc, circuit, call, outcome>>

---------------------------------------------------------------------------
(* Bounds of the model.                                                    *)

\* Longest coefficient vector of a dividend or divisor.
MaxLen == 3

\* Width of the Integer type (I::BITS), scaled down.
IntBits == 3

---------------------------------------------------------------------------
(* The prime field (E::BaseField, and F of the polynomials).               *)

\* The field's modulus, scaled down to a 10-bit prime.
Modulus == 1021

\* PrimeField::size_in_bits(): the number of bits of the modulus.
size_in_bits == 10

F == 0 .. (Modulus - 1)

RECURSIVE Pow2(_)
Pow2(n) == IF n = 0 THEN 1 ELSE 2 * Pow2(n - 1)

FAdd(x, y) == (x + y) % Modulus
FSub(x, y) == (x - y + Modulus) % Modulus
FMul(x, y) == (x * y) % Modulus
FNeg(x) == (Modulus - x) % Modulus

RECURSIVE FPow(_, _)
FPow(x, e) ==
    IF e = 0 THEN 1
    ELSE LET h == FPow(x, e \div 2)
         IN  IF e % 2 = 0 THEN FMul(h, h) ELSE FMul(FMul(h, h), x)

\* Option: None, Some(v), and unwrap.
None == <<>>
Some(v) == <<v>>
unwrap(o) == o[1]

\* The inverses of the nonzero elements, x^(Modulus - 2), computed once.
InverseTable == [x \in 1 .. (Modulus - 1) |-> FPow(x, Modulus - 2)]

\* Field::inverse(): None for zero, otherwise Some(x^-1).
inverse(x) == IF x = 0 THEN None ELSE Some(InverseTable[x])

\* The values the model draws field inputs from.
FieldSample == {0, 1, 2, 5, Modulus - 1}

\* The values the model draws polynomial coefficients from.
CoeffSample == {0, 1, 2}

---------------------------------------------------------------------------
(* Polynomials.  A dense polynomial is its coefficient vector, index i + 1 *)
(* holding the coefficient of x^i; a sparse polynomial is a sequence of    *)
(* <<degree, coefficient>> pairs of increasing degree.                     *)

\* DPolynomial(p) and SPolynomial(p); the field of the other variant stays empty.
Dense(c) == [kind |-> "D", dense |-> c, sparse |-> <<>>]
Sparse(s) == [kind |-> "S", dense |-> <<>>, sparse |-> s]

\* DensePolynomial::zero()
DenseZero == <<>>

RECURSIVE truncate_leading_zeros(_)
truncate_leading_zeros(c) ==
    IF c # <<>> /\ c[Len(c)] = 0
    THEN truncate_leading_zeros(SubSeq(c, 1, Len(c) - 1))
    ELSE c

\* DensePolynomial::from_coefficients_vec: the vector without its trailing zeros.
from_coefficients_vec(c) == truncate_leading_zeros(c)

\* DensePolynomial::is_zero / SparsePolynomial::is_zero
dense_is_zero(c) == c = <<>> \/ \A i \in 1 .. Len(c) : c[i] = 0
sparse_is_zero(s) == s = <<>> \/ \A i \in 1 .. Len(s) : s[i][2] = 0

\* DensePolynomial::degree / SparsePolynomial::degree
dense_degree(c) == IF dense_is_zero(c) THEN 0 ELSE Len(c) - 1
sparse_degree(s) == IF sparse_is_zero(s) THEN 0 ELSE s[Len(s)][1]

\* DenseOrSparsePolynomial::is_zero
is_zero(p) == IF p.kind = "S" THEN sparse_is_zero(p.sparse) ELSE dense_is_zero(p.dense)

\* DenseOrSparsePolynomial::degree
degree(p) == IF p.kind = "S" THEN sparse_degree(p.sparse) ELSE dense_degree(p.dense)

\* DenseOrSparsePolynomial::leading_coefficient: the last stored coefficient.
leading_coefficient(p) ==
    IF p.kind = "S"
    THEN IF p.sparse = <<>> THEN None ELSE Some(p.sparse[Len(p.sparse)][2])
    ELSE IF p.dense = <<>> THEN None ELSE Some(p.dense[Len(p.dense)])

\* From<SparsePolynomial> for DensePolynomial: a vector of degree + 1
\* coefficients, zero where the sparse polynomial stores no term.
sparse_into_dense(s) ==
    IF s = <<>> THEN <<>>
    ELSE from_coefficients_vec(
           [i \in 1 .. (s[Len(s)][1] + 1) |->
               IF \E j \in 1 .. Len(s) : s[j][1] = i - 1
               THEN s[CHOOSE j \in 1 .. Len(s) : s[j][1] = i - 1][2]
               ELSE 0])

\* Into<DensePolynomial> for DenseOrSparsePolynomial
into_dense(p) == IF p.kind = "D" THEN p.dense ELSE sparse_into_dense(p.sparse)

\* DenseOrSparsePolynomial::coeffs: the <<degree, coefficient>> pairs iterated.
coeffs(p) ==
    IF p.kind = "S" THEN p.sparse
    ELSE [i \in 1 .. Len(p.dense) |-> <<i - 1, p.dense[i]>>]

\* The inner for loop of the division: remainder[cur_q_degree + i] -= cur_q_coeff * div_coeff
\* for every (i, div_coeff) of the divisor.
RECURSIVE sub_scaled(_, _, _, _, _)
sub_scaled(rem, terms, n, cur_q_degree, cur_q_coeff) ==
    IF n > Len(terms) THEN rem
    ELSE LET idx == cur_q_degree + terms[n][1] + 1
         IN  sub_scaled([rem EXCEPT ![idx] = FSub(rem[idx], FMul(cur_q_coeff, terms[n][2]))],
                        terms, n + 1, cur_q_degree, cur_q_coeff)

\* A remainder whose cancelled leading coefficients are never removed.
keep_zeros(c) == c

\* while let Some(true) = remainder.coeffs.last().map(|c| c.is_zero()) { pop }
RECURSIVE pop_zeros(_)
pop_zeros(c) ==
    IF c # <<>> /\ c[Len(c)] = 0 THEN pop_zeros(SubSeq(c, 1, Len(c) - 1)) ELSE c

\* divisor.leading_coefficient().unwrap().inverse().unwrap()
divisor_leading_inv == unwrap(inverse(unwrap(leading_coefficient(divisor))))

\* A loop that stops one step early: > where the code has >=.
loop_condition_strict == ~dense_is_zero(remainder) /\ dense_degree(remainder) > degree(divisor)

\* The condition of the division loop.
loop_condition == ~dense_is_zero(remainder) /\ dense_degree(remainder) >= degree(divisor)

\* One iteration of the division loop.
cur_q_coeff == FMul(remainder[Len(remainder)], divisor_leading_inv)
cur_q_degree == dense_degree(remainder) - degree(divisor)

---------------------------------------------------------------------------
(* The environment, idle while a division is modelled.                     *)

EmptyCircuit ==
    [constants |-> 0, public |-> 0, private |-> 0, constraints |-> 0, gates |-> <<>>]

NoCall == [op |-> "none"]
NoOutcome == [kind |-> "none"]

---------------------------------------------------------------------------
(* divide_with_q_and_r as a state machine.                                 *)

\* The canonical coefficient vectors of at most MaxLen coefficients.
DenseVectors ==
    {c \in UNION {[1 .. n -> CoeffSample] : n \in 0 .. MaxLen} :
        c = <<>> \/ c[Len(c)] # 0}

RECURSIVE nonzero_terms(_, _)
nonzero_terms(c, i) ==
    IF i > Len(c) THEN <<>>
    ELSE IF c[i] = 0 THEN nonzero_terms(c, i + 1)
    ELSE <<(<<i - 1, c[i]>>)>> \o nonzero_terms(c, i + 1)

\* SparsePolynomial::from_coefficients of the same polynomial.
to_sparse(c) == nonzero_terms(c, 1)

Polynomials == {Dense(c) : c \in DenseVectors} \cup {Sparse(to_sparse(c)) : c \in DenseVectors}

PolyFrame == UNCHANGED <<circuit, call, outcome>>

\* The number of iterations of the division loop run so far.
Iterations(n) == [kind |-> "loop", iterations |-> n]

InitPoly ==
    /\ dividend \in Polynomials
    /\ divisor \in Polynomials
    /\ quotient = <<>>
    /\ remainder = <<>>
    /\ dpc = "call"
    /\ circuit = EmptyCircuit
    /\ call = NoCall
    /\ outcome = NoOutcome

\* if self.is_zero() { Some((zero, zero)) }
DivideZeroDividend ==
    /\ dpc = "call"
    /\ is_zero(dividend)
    /\ quotient' = DenseZero
    /\ remainder' = DenseZero
    /\ dpc' = "done"
    /\ UNCHANGED <<dividend, divisor>>
    /\ PolyFrame

\* else if divisor.is_zero() { panic!("Dividing by zero polynomial") }
DividePanic ==
    /\ dpc = "call"
    /\ ~is_zero(dividend)
    /\ is_zero(divisor)
    /\ dpc' = "panic"
    /\ UNCHANGED <<dividend, divisor, quotient, remainder>>
    /\ PolyFrame

\* A short-dividend branch that returns a zero remainder instead of the dividend.
DivideSmallDividendZeroRemainder ==
    /\ dpc = "call"
    /\ ~is_zero(dividend)
    /\ ~is_zero(divisor)
    /\ degree(dividend) < degree(divisor)
    /\ quotient' = DenseZero
    /\ remainder' = DenseZero
    /\ dpc' = "done"
    /\ UNCHANGED <<dividend, divisor>>
    /\ PolyFrame

\* else if self.degree() < divisor.degree() { Some((zero, self.clone().into())) }
DivideSmallDividend ==
    /\ dpc = "call"
    /\ ~is_zero(dividend)
    /\ ~is_zero(divisor)
    /\ degree(dividend) < degree(divisor)
    /\ quotient' = DenseZero
    /\ remainder' = into_dense(dividend)
    /\ dpc' = "done"
    /\ UNCHANGED <<dividend, divisor>>
    /\ PolyFrame

\* An entry that allocates the quotient one coefficient too short.
DivideEnterShortQuotient ==
    /\ dpc = "call"
    /\ ~is_zero(dividend)
    /\ ~is_zero(divisor)
    /\ degree(dividend) >= degree(divisor)
    /\ quotient' = [i \in 1 .. (degree(dividend) - degree(divisor)) |-> 0]
    /\ remainder' = into_dense(dividend)
    /\ dpc' = "loop"
    /\ outcome' = Iterations(0)
    /\ UNCHANGED <<dividend, divisor, circuit, call>>

\* else: the quotient vector is allocated and the remainder starts as the dividend.
DivideEnter ==
    /\ dpc = "call"
    /\ ~is_zero(dividend)
    /\ ~is_zero(divisor)
    /\ degree(dividend) >= degree(divisor)
    /\ quotient' = [i \in 1 .. (degree(dividend) - degree(divisor) + 1) |-> 0]
    /\ remainder' = into_dense(dividend)
    /\ dpc' = "loop"
    /\ outcome' = Iterations(0)
    /\ UNCHANGED <<dividend, divisor, circuit, call>>

\* One iteration of the while loop.
DivideStep ==
    /\ dpc = "loop"
    /\ loop_condition
    /\ quotient' = [quotient EXCEPT ![cur_q_degree + 1] = cur_q_coeff]
    /\ remainder' = pop_zeros(sub_scaled(remainder, coeffs(divisor), 1, cur_q_degree, cur_q_coeff))
    /\ outcome' = Iterations(outcome.iterations + 1)
    /\ UNCHANGED <<dividend, divisor, dpc, circuit, call>>

\* Some((DensePolynomial::from_coefficients_vec(quotient), remainder))
DivideReturn ==
    /\ dpc = "loop"
    /\ ~loop_condition
    /\ quotient' = from_coefficients_vec(quotient)
    /\ dpc' = "done"
    /\ UNCHANGED <<dividend, divisor, remainder>>
    /\ PolyFrame

NextPoly ==
    \/ DivideZeroDividend
    \/ DividePanic
    \/ DivideSmallDividend
    \/ DivideEnter
    \/ DivideStep
    \/ DivideReturn

SpecPoly == InitPoly /\ [][NextPoly]_vars

\* The call runs to its end: no step of it is postponed for ever.
SpecPolyLive == SpecPoly /\ WF_vars(NextPoly)


---------------------------------------------------------------------------
(* Claims about divide_with_q_and_r.                                       *)

\* The coefficient of x^k of a coefficient vector.
Coef(c, k) == IF k + 1 <= Len(c) THEN c[k + 1] ELSE 0

\* The coefficient of x^k of the product of two coefficient vectors.
RECURSIVE ConvSum(_, _, _, _)
ConvSum(q, d, k, i) ==
    IF i > k THEN 0
    ELSE FAdd(FMul(Coef(q, i), Coef(d, k - i)), ConvSum(q, d, k, i + 1))

\* q * d + r = p, coefficient by coefficient.
DivisionIdentity(q, d, r, p) ==
    \A k \in 0 .. (2 * MaxLen + 2) : FAdd(ConvSum(q, d, k, 0), Coef(r, k)) = Coef(p, k)

\* C1: for every dividend and every nonzero divisor, the returned (q, r)
\* satisfies q * d + r = p, and r is zero or of degree below the divisor's.
C1_QuotientRemainder ==
    (dpc = "done" /\ ~is_zero(divisor)) =>
        /\ DivisionIdentity(quotient, into_dense(divisor), remainder, into_dense(dividend))
        /\ (dense_is_zero(remainder) \/ dense_degree(remainder) < degree(divisor))

\* A division that ran the loop at least twice against a sparse divisor with
\* leading coefficient 2 and left a nonzero remainder.
C1_Witness ==
    /\ dpc = "done"
    /\ divisor.kind = "S"
    /\ degree(divisor) >= 1
    /\ leading_coefficient(divisor) = Some(2)
    /\ Len(quotient) >= 2
    /\ ~dense_is_zero(remainder)

\* The dividend is zero or of degree below the divisor's.
ShortDividend == is_zero(dividend) \/ degree(dividend) < degree(divisor)

\* C11: for a nonzero divisor and a dividend that is zero or of degree below
\* the divisor's, the call returns the zero quotient and the dividend as the
\* remainder, and never enters the division loop.
C11_ShortDividend ==
    (~is_zero(divisor) /\ ShortDividend) =>
        /\ dpc \in {"call", "done"}
        /\ dpc = "done" =>
               /\ quotient = DenseZero
               /\ remainder = into_dense(dividend)

\* A nonzero sparse dividend of degree 1 against a divisor of degree 2.
C11_Witness ==
    /\ dpc = "done"
    /\ dividend.kind = "S"
    /\ ~is_zero(dividend) /\ degree(dividend) = 1 /\ degree(divisor) = 2
    /\ quotient = DenseZero
    /\ remainder = into_dense(dividend)
    /\ ~dense_is_zero(remainder)

\* C25: the division loop terminates for every dividend and nonzero
\* divisor: each iteration leaves a remainder that is zero or of strictly
\* smaller degree, the loop runs at most dividend.degree() -
\* divisor.degree() + 1 times, it is left only when the remainder is zero or
\* of degree below the divisor's, and the call ends.
C25_LoopTerminates ==
    /\ [][(dpc = "loop" /\ dpc' = "loop") =>
            (remainder' = <<>> \/ dense_degree(remainder') < dense_degree(remainder))]_vars
    /\ [][(dpc = "loop" /\ dpc' = "done") =>
            (dense_is_zero(remainder) \/ dense_degree(remainder) < degree(divisor))]_vars
    /\ [](dpc = "loop" => outcome.iterations <= degree(dividend) - degree(divisor) + 1)
    /\ <>(dpc \in {"done", "panic"})

\* A division that ran the loop the largest number of times, three, and one
\* can tell from the quotient that every iteration wrote a coefficient.
C25_Witness ==
    /\ dpc = "done"
    /\ outcome.kind = "loop"
    /\ outcome.iterations = degree(dividend) - degree(divisor) + 1
    /\ outcome.iterations = MaxLen
    /\ \A i \in 1 .. Len(quotient) : quotient[i] # 0

\* C26: for nonzero polynomials with dividend.degree() >= divisor.degree(),
\* every quotient index the loop writes lies within the allocated vector,
\* the returned quotient has degree exactly dividend.degree() -
\* divisor.degree() with a nonzero leading coefficient, and both returned
\* polynomials are canonical: no trailing zero, the zero polynomial empty.
C26_QuotientShape ==
    /\ (dpc = "loop" /\ loop_condition) => (cur_q_degree + 1) \in 1 .. Len(quotient)
    /\ (dpc = "done" /\ ~is_zero(dividend) /\ ~is_zero(divisor)
           /\ degree(dividend) >= degree(divisor)) =>
          /\ Len(quotient) = degree(dividend) - degree(divisor) + 1
          /\ quotient[Len(quotient)] # 0
          /\ (remainder = <<>> \/ remainder[Len(remainder)] # 0)

\* A quotient of degree 1 whose constant coefficient was never written,
\* with a nonzero remainder.
C26_Witness ==
    /\ dpc = "done"
    /\ ~is_zero(dividend) /\ ~is_zero(divisor)
    /\ degree(dividend) = degree(divisor) + 1
    /\ Len(quotient) = 2
    /\ quotient[1] = 0 /\ quotient[2] # 0
    /\ remainder # <<>>
    /\ outcome.iterations = 1

\* C10: the call panics whenever the divisor is the zero polynomial, whatever
\* the dividend: it never returns for a zero divisor.
C10_ZeroDivisorPanics ==
    (is_zero(divisor) /\ dpc # "call") => dpc = "panic"


---------------------------------------------------------------------------
(* The circuit environment.  A Field is a linear combination, kept as its  *)
(* mode and its value under the witness assignment; a Boolean likewise.    *)
(* A gate A * B = C is recorded as the three values <<A, B, C>>.           *)

Constant == "Constant"
Public == "Public"
Private == "Private"
Modes == {Constant, Public, Private}

\* Mode::is_constant
is_constant(x) == x.mode = Constant

\* The mode of a linear combination of two terms: constant only if both are.
lc_mode(m1, m2) ==
    IF m1 = Private \/ m2 = Private THEN Private
    ELSE IF m1 = Public \/ m2 = Public THEN Public
    ELSE Constant

\* witness_mode!: Constant if every input is constant, Private otherwise.
witness_mode(ms) == IF \A m \in ms : m = Constant THEN Constant ELSE Private

Val(m, v) == [mode |-> m, value |-> v]

\* E::zero() and E::one()
zero == Val(Constant, 0)
one == Val(Constant, 1)

\* A Boolean as a linear combination.
b2f(b) == IF b THEN 1 ELSE 0
from_boolean(b) == Val(b.mode, b2f(b.value))

\* What a call returns: the circuit after it, the value, and whether it halted.
Ret(c, out) == [c |-> c, out |-> out, halt |-> FALSE]
\* E::halt: the call panics; the circuit is left as it was when it did.
halt(c) == [c |-> c, out |-> None, halt |-> TRUE]

\* Sequencing of two calls: a halt of the first ends the whole call;
\* otherwise the second runs on what the first returned.
Bind(r, K(_)) == CHOOSE y \in {IF x.halt THEN x ELSE K(x) : x \in {r}} : TRUE

\* E::new_variable: counts the variable under its mode.
new_variable(c, mode, value) ==
    Ret(CASE mode = Constant -> [c EXCEPT !.constants = @ + 1]
          [] mode = Public -> [c EXCEPT !.public = @ + 1]
          [] OTHER -> [c EXCEPT !.private = @ + 1],
        Val(mode, value))

\* A variant that records a constraint for a triple of constants too.
enforce_counts_constants(c, a, b, cc) ==
    IF is_constant(a) /\ is_constant(b) /\ is_constant(cc) /\ FMul(a.value, b.value) # cc.value
    THEN halt(c)
    ELSE Ret([c EXCEPT !.constraints = @ + 1,
                       !.gates = Append(@, <<a.value, b.value, cc.value>>)], None)

\* E::enforce: a triple of constants is evaluated on the spot and adds no gate
\* (a failed one halts); any other triple is recorded as one constraint.
enforce(c, a, b, cc) ==
    IF is_constant(a) /\ is_constant(b) /\ is_constant(cc)
    THEN IF FMul(a.value, b.value) = cc.value THEN Ret(c, None) ELSE halt(c)
    ELSE Ret([c EXCEPT !.constraints = @ + 1,
                       !.gates = Append(@, <<a.value, b.value, cc.value>>)], None)

\* An assert_eq that enforces the product a * b = 1.
assert_eq_as_product(c, a, b) == enforce(c, a, b, one)

\* E::assert_eq(a, b): enforce(a, one, b)
assert_eq(c, a, b) == enforce(c, a, one, b)

\* A gate <<a, b, c>> holds when a * b = c in the field.
gate_holds(gate) == FMul(gate[1], gate[2]) = gate[3]

\* An is_satisfied that looks at the gate recorded last only.
is_satisfied_last_gate(c) == c.gates = <<>> \/ gate_holds(c.gates[Len(c.gates)])

\* E::is_satisfied: every recorded gate holds.
is_satisfied(c) ==
    \A i \in 1 .. Len(c.gates) : FMul(c.gates[i][1], c.gates[i][2]) = c.gates[i][3]

\* Field::new / new_witness for a Field: one variable.
field_new(c, mode, value) == new_variable(c, mode, value)

\* Boolean::new / new_witness for a Boolean: one variable and, unless it is a
\* constant, the gate (1 - b) * b = 0.
boolean_new(c, mode, value) ==
    Bind(new_variable(c, mode, b2f(value)), LAMBDA v :
    IF mode = Constant THEN Ret(v.c, Val(mode, value))
    ELSE Bind(enforce(v.c, Val(mode, FSub(1, b2f(value))), Val(mode, b2f(value)), zero),
              LAMBDA e :
         Ret(e.c, Val(mode, value))))

\* new_witness for a Vec<Boolean>: one Boolean per bit, in order.
RECURSIVE booleans_new(_, _, _, _)
booleans_new(c, mode, values, acc) ==
    IF Len(acc) = Len(values) THEN Ret(c, acc)
    ELSE Bind(boolean_new(c, mode, values[Len(acc) + 1]), LAMBDA r :
         booleans_new(r.c, mode, values, Append(acc, r.out)))

\* Field arithmetic on linear combinations.
field_add(a, b) == Val(lc_mode(a.mode, b.mode), FAdd(a.value, b.value))
field_sub(a, b) == Val(lc_mode(a.mode, b.mode), FSub(a.value, b.value))

\* Field * Field: a product with a constant scales the linear combination;
\* otherwise the product is a private witness under the gate a * b = product.
field_mul(c, a, b) ==
    IF is_constant(a) \/ is_constant(b)
    THEN Ret(c, Val(lc_mode(a.mode, b.mode), FMul(a.value, b.value)))
    ELSE Bind(field_new(c, Private, FMul(a.value, b.value)), LAMBDA w :
         Bind(enforce(w.c, a, b, w.out), LAMBDA e :
         Ret(e.c, w.out)))

\* Field::inv: the witness closure halts on zero; the gate is self * inverse = 1.
inv(c, a) ==
    IF inverse(a.value) = None THEN halt(c)
    ELSE Bind(field_new(c, witness_mode({a.mode}), unwrap(inverse(a.value))), LAMBDA w :
         Bind(enforce(w.c, a, w.out, one), LAMBDA e :
         Ret(e.c, w.out)))

\* A division that multiplies by the divisor itself.
div_assign_no_inv(c, a, b) == field_mul(c, a, b)

\* A division with the operands exchanged.
div_assign_exchanged(c, a, b) ==
    Bind(inv(c, a), LAMBDA i : field_mul(i.c, b, i.out))

\* DivAssign<&Field>: *self *= other.inv()
div_assign(c, a, b) ==
    Bind(inv(c, b), LAMBDA i : field_mul(i.c, a, i.out))

\* The bits of a field value, least significant first.
to_bits_le(v, n) == [i \in 1 .. n |-> ((v \div Pow2(i - 1)) % 2) = 1]

\* to_lower_bits_le, lines 38-48: the bits are summed with weights 2^i and the
\* sum is asserted equal to the value.
RECURSIVE accumulate(_, _, _)
accumulate(bits, i, acc) ==
    IF i > Len(bits) THEN acc
    ELSE accumulate(bits, i + 1,
            field_add(acc, Val(bits[i].mode, FMul(b2f(bits[i].value), Pow2(i - 1) % Modulus))))

reconstruct(c, self, bits) == assert_eq(c, self, accumulate(bits, 1, zero))

\* A capacity check that admits one bit too few.
capacity_exceeded_strict(k) == k >= size_in_bits

\* to_lower_bits_le, line 28: the size check.
capacity_exceeded(k) == k > size_in_bits

\* Field::to_lower_bits_le
to_lower_bits_le(c, self, k) ==
    IF capacity_exceeded(k) THEN halt(c)
    ELSE Bind(booleans_new(c, witness_mode({self.mode}), to_bits_le(self.value, k), <<>>),
              LAMBDA bits :
         Bind(reconstruct(bits.c, self, bits.out), LAMBDA eq :
         Ret(eq.c, bits.out)))

Reverse(s) == [i \in 1 .. Len(s) |-> s[Len(s) + 1 - i]]

\* Field::to_lower_bits_be
to_lower_bits_be(c, self, k) ==
    Bind(to_lower_bits_le(c, self, k), LAMBDA r : Ret(r.c, Reverse(r.out)))

\* !boolean
not(b) == Val(b.mode, ~b.value)

\* The only gate of the first check: the second one is dropped.
neq_gates_first_only(c, self, other, multiplier, is_neq) ==
    enforce(c, field_sub(self, other), multiplier, from_boolean(is_neq))

\* is_not_equal, lines 117-127: the two gates of the inequality check.
neq_gates(c, self, other, multiplier, is_neq) ==
    Bind(enforce(c, field_sub(self, other), multiplier, from_boolean(is_neq)), LAMBDA g1 :
    enforce(g1.c, field_sub(self, other), from_boolean(not(is_neq)), zero))

\* An inequality whose witnesses take the more private of the operands' modes.
is_not_equal_operand_mode(c, self, other) ==
    IF is_constant(self) /\ is_constant(other)
    THEN boolean_new(c, Constant, self.value # other.value)
    ELSE Bind(boolean_new(c, lc_mode(self.mode, other.mode), self.value # other.value),
              LAMBDA is_neq :
         Bind(field_new(is_neq.c, lc_mode(self.mode, other.mode),
                        IF self.value # other.value
                        THEN unwrap(inverse(FSub(self.value, other.value)))
                        ELSE 1), LAMBDA multiplier :
         Bind(neq_gates(multiplier.c, self, other, multiplier.out, is_neq.out), LAMBDA g :
         Ret(g.c, is_neq.out))))

\* A variant whose constant result ignores the closure and holds the default.
is_not_equal_constant_default(c, self, other) ==
    IF is_constant(self) /\ is_constant(other)
    THEN boolean_new(c, Constant, FALSE)
    ELSE Bind(boolean_new(c, Private, self.value # other.value), LAMBDA is_neq :
         Bind(field_new(is_neq.c, Private,
                        IF self.value # other.value
                        THEN unwrap(inverse(FSub(self.value, other.value)))
                        ELSE 1), LAMBDA multiplier :
         Bind(neq_gates(multiplier.c, self, other, multiplier.out, is_neq.out), LAMBDA g :
         Ret(g.c, is_neq.out))))

\* A variant that allocates no multiplier when the operands are equal.
is_not_equal_value_dependent(c, self, other) ==
    IF is_constant(self) /\ is_constant(other)
    THEN boolean_new(c, Constant, self.value # other.value)
    ELSE Bind(boolean_new(c, Private, self.value # other.value), LAMBDA is_neq :
         Bind(IF self.value # other.value
              THEN field_new(is_neq.c, Private, unwrap(inverse(FSub(self.value, other.value))))
              ELSE Ret(is_neq.c, Val(Constant, 1)), LAMBDA multiplier :
         Bind(neq_gates(multiplier.c, self, other, multiplier.out, is_neq.out), LAMBDA g :
         Ret(g.c, is_neq.out))))

\* Field::is_not_equal
is_not_equal(c, self, other) ==
    IF is_constant(self) /\ is_constant(other)
    THEN boolean_new(c, Constant, self.value # other.value)
    ELSE Bind(boolean_new(c, Private, self.value # other.value), LAMBDA is_neq :
         Bind(field_new(is_neq.c, Private,
                        IF self.value # other.value
                        THEN unwrap(inverse(FSub(self.value, other.value)))
                        ELSE 1), LAMBDA multiplier :
         Bind(neq_gates(multiplier.c, self, other, multiplier.out, is_neq.out), LAMBDA g :
         Ret(g.c, is_neq.out))))

\* An equality that forgets the negation.
is_equal_not_negated(c, self, other) == is_not_equal(c, self, other)

\* Field::is_equal
is_equal(c, self, other) ==
    Bind(is_not_equal(c, self, other), LAMBDA r : Ret(r.c, not(r.out)))


---------------------------------------------------------------------------
(* Gadget calls as state machines.  `call` holds the operands drawn for    *)
(* the run; a first step allocates them in the circuit, a second step runs *)
(* the operation, and `outcome` records what it returned.                  *)

GadgetFrame == UNCHANGED <<dividend, divisor, quotient, remainder, dpc>>

InitGadget ==
    /\ dividend = Dense(<<>>)
    /\ divisor = Dense(<<>>)
    /\ quotient = <<>>
    /\ remainder = <<>>
    /\ dpc = "idle"
    /\ circuit = EmptyCircuit
    /\ outcome = NoOutcome

Allocated(args) == [kind |-> "allocated", args |-> args]
Done(out) == [kind |-> "done", out |-> out]
Halted == [kind |-> "halted"]

\* The outcome of a call that returned r.
Finish(r) == IF r.halt THEN Halted ELSE Done(r.out)

\* Environment::reset: an empty environment.
Reset ==
    /\ outcome.kind \in {"done", "halted"}
    /\ circuit' = EmptyCircuit
    /\ outcome' = [kind |-> "reset"]
    /\ UNCHANGED call
    /\ GadgetFrame

(* test_is_neq_cases: a, b and the prover's multiplier and is_neq are      *)
(* allocated as private values, then the two gates are enforced on them.   *)

NeqCalls ==
    [op : {"neq"}, a : FieldSample, b : FieldSample, multiplier : F, is_neq : BOOLEAN]

InitNeq == InitGadget /\ call \in NeqCalls

AllocateNeq ==
    /\ call.op = "neq"
    /\ outcome.kind = "none"
    /\ LET a == field_new(circuit, Private, call.a)
           b == field_new(a.c, Private, call.b)
           m == field_new(b.c, Private, call.multiplier)
           n == boolean_new(m.c, Private, call.is_neq)
       IN  /\ circuit' = n.c
           /\ outcome' = Allocated([a |-> a.out, b |-> b.out, multiplier |-> m.out,
                                    is_neq |-> n.out])
    /\ UNCHANGED call
    /\ GadgetFrame

EnforceNeq ==
    /\ call.op = "neq"
    /\ outcome.kind = "allocated"
    /\ LET x == outcome.args
           r == neq_gates(circuit, x.a, x.b, x.multiplier, x.is_neq)
       IN  /\ circuit' = r.c
           /\ outcome' = Finish(r)
    /\ UNCHANGED call
    /\ GadgetFrame

NextNeq == AllocateNeq \/ EnforceNeq \/ Reset

SpecNeq == InitNeq /\ [][NextNeq]_vars

\* The prover's is_neq and multiplier are the honest ones.
HonestNeq ==
    \/ call.a = call.b /\ ~call.is_neq
    \/ /\ call.a # call.b
       /\ call.is_neq
       /\ Some(call.multiplier) = inverse(FSub(call.a, call.b))

\* C2: the two gates of the inequality check are satisfied exactly by the
\* honest assignments: is_neq the true indicator of a # b and, when a # b,
\* multiplier the inverse of a - b; every other assignment leaves the circuit
\* unsatisfied.
C2_NeqSound ==
    (call.op = "neq" /\ outcome.kind = "done") =>
        /\ is_satisfied(circuit) <=> HonestNeq
        /\ is_satisfied(circuit) => (call.is_neq <=> call.a # call.b)

\* A dishonest is_neq = 0 for a # b, with multiplier 0, is rejected.
C2_Witness ==
    /\ call.op = "neq"
    /\ outcome.kind = "done"
    /\ call.a = 5 /\ call.b = 2 /\ call.multiplier = 0 /\ ~call.is_neq
    /\ ~is_satisfied(circuit)
---------------------------------------------------------------------------
(* Field division.                                                         *)

DivCalls ==
    [op : {"div"}, mode_a : Modes, mode_b : Modes, a : FieldSample, b : FieldSample]

InitDiv == InitGadget /\ call \in DivCalls

\* Field::new(mode_a, dividend), Field::new(mode_b, divisor)
AllocateDiv ==
    /\ call.op = "div"
    /\ outcome.kind = "none"
    /\ LET a == field_new(circuit, call.mode_a, call.a)
           b == field_new(a.c, call.mode_b, call.b)
       IN  /\ circuit' = b.c
           /\ outcome' = Allocated([a |-> a.out, b |-> b.out])
    /\ UNCHANGED call
    /\ GadgetFrame

\* a / b
Div ==
    /\ call.op = "div"
    /\ outcome.kind = "allocated"
    /\ LET r == div_assign(circuit, outcome.args.a, outcome.args.b)
       IN  /\ circuit' = r.c
           /\ outcome' = Finish(r)
    /\ UNCHANGED call
    /\ GadgetFrame

NextDiv == AllocateDiv \/ Div \/ Reset

SpecDiv == InitDiv /\ [][NextDiv]_vars

\* C8: a division by a Field whose value is zero halts, whatever the modes of
\* the operands; it returns no value.
C8_DivByZeroHalts ==
    (call.op = "div" /\ outcome.kind \in {"done", "halted"} /\ call.b = 0) =>
        outcome.kind = "halted"

\* A Public value divided by a Public zero has halted.
C8_Witness ==
    /\ call.op = "div"
    /\ call.mode_a = Public /\ call.mode_b = Public
    /\ call.a = 1 /\ call.b = 0
    /\ outcome.kind = "halted"

---------------------------------------------------------------------------
(* Bit decomposition of a Field.                                           *)

\* The widths asked for: every width within the capacity, and one beyond it.
Widths == 0 .. (size_in_bits + 1)

LowerBitsCalls ==
    [op : {"to_lower_bits_le", "to_lower_bits_be"}, mode : Modes, value : FieldSample \cup {700},
     k : Widths]

\* A prover's own choice of the k bits for a private value.
ProverBitsCalls ==
    UNION {[op : {"prover_bits"}, value : FieldSample \cup {700}, k : {k},
            bits : [1 .. k -> BOOLEAN]] : k \in 0 .. size_in_bits}

InitBits == InitGadget /\ call \in LowerBitsCalls \cup ProverBitsCalls

\* Field::new(mode, value)
AllocateBits ==
    /\ call.op \in {"to_lower_bits_le", "to_lower_bits_be", "prover_bits"}
    /\ outcome.kind = "none"
    /\ LET v == field_new(circuit, IF call.op = "prover_bits" THEN Private ELSE call.mode,
                          call.value)
       IN  /\ circuit' = v.c
           /\ outcome' = Allocated([value |-> v.out])
    /\ UNCHANGED call
    /\ GadgetFrame

ToLowerBitsLe ==
    /\ call.op = "to_lower_bits_le"
    /\ outcome.kind = "allocated"
    /\ LET r == to_lower_bits_le(circuit, outcome.args.value, call.k)
       IN  /\ circuit' = r.c
           /\ outcome' = Finish(r)
    /\ UNCHANGED call
    /\ GadgetFrame

ToLowerBitsBe ==
    /\ call.op = "to_lower_bits_be"
    /\ outcome.kind = "allocated"
    /\ LET r == to_lower_bits_be(circuit, outcome.args.value, call.k)
       IN  /\ circuit' = r.c
           /\ outcome' = Finish(r)
    /\ UNCHANGED call
    /\ GadgetFrame

\* The constraint of to_lower_bits_le on bits the prover chose: the bits are
\* allocated as private Booleans and the value is reconstructed from them.
ProverBits ==
    /\ call.op = "prover_bits"
    /\ outcome.kind = "allocated"
    /\ LET bits == booleans_new(circuit, Private, call.bits, <<>>)
           r == reconstruct(bits.c, outcome.args.value, bits.out)
       IN  /\ circuit' = r.c
           /\ outcome' = Finish(Ret(r.c, bits.out))
    /\ UNCHANGED call
    /\ GadgetFrame

NextBits == AllocateBits \/ ToLowerBitsLe \/ ToLowerBitsBe \/ ProverBits \/ Reset

SpecBits == InitBits /\ [][NextBits]_vars

\* The value fits in k bits.
Fits(v, k) == v < Pow2(k)

\* C6: for every k up to the field's size in bits, the constraint
\* value * 1 = sum of 2^i * b_i is satisfied by boolean b_0 .. b_(k-1) only
\* when they are the k low-order bits of the value and the value has no
\* higher bit set.
C6_RangeProof ==
    (call.op = "prover_bits" /\ outcome.kind = "done" /\ is_satisfied(circuit)) =>
        /\ call.bits = to_bits_le(call.value, call.k)
        /\ Fits(call.value, call.k)

LowerBitsDone ==
    /\ call.op \in {"to_lower_bits_le", "to_lower_bits_be"}
    /\ outcome.kind \in {"done", "halted"}

---------------------------------------------------------------------------
(* Booleans.                                                               *)

\* Boolean & Boolean: folded when an operand is constant; otherwise a private
\* witness under the gate a * b = output.
bool_and(c, a, b) ==
    IF is_constant(a) THEN Ret(c, IF a.value THEN b ELSE a)
    ELSE IF is_constant(b) THEN Ret(c, IF b.value THEN a ELSE b)
    ELSE Bind(new_variable(c, Private, b2f(a.value /\ b.value)), LAMBDA w :
         Bind(enforce(w.c, from_boolean(a), from_boolean(b), w.out), LAMBDA e :
         Ret(e.c, Val(Private, a.value /\ b.value))))

\* Boolean | Boolean: the gate is (1 - a) * (1 - b) = (1 - output).
bool_or(c, a, b) ==
    IF is_constant(a) THEN Ret(c, IF a.value THEN a ELSE b)
    ELSE IF is_constant(b) THEN Ret(c, IF b.value THEN b ELSE a)
    ELSE Bind(new_variable(c, Private, b2f(a.value \/ b.value)), LAMBDA w :
         Bind(enforce(w.c, from_boolean(not(a)), from_boolean(not(b)),
                      Val(Private, FSub(1, w.out.value))), LAMBDA e :
         Ret(e.c, Val(Private, a.value \/ b.value))))

\* Boolean::is_not_equal (xor): the gate is (a + a) * b = a + b - output.
bool_is_not_equal(c, a, b) ==
    IF is_constant(a) THEN Ret(c, IF a.value THEN not(b) ELSE b)
    ELSE IF is_constant(b) THEN Ret(c, IF b.value THEN not(a) ELSE a)
    ELSE Bind(new_variable(c, Private, b2f(a.value # b.value)), LAMBDA w :
         Bind(enforce(w.c, field_add(from_boolean(a), from_boolean(a)), from_boolean(b),
                      field_sub(field_add(from_boolean(a), from_boolean(b)), w.out)),
              LAMBDA e :
         Ret(e.c, Val(Private, a.value # b.value))))

\* Boolean::is_equal
bool_is_equal(c, a, b) ==
    Bind(bool_is_not_equal(c, a, b), LAMBDA r : Ret(r.c, not(r.out)))

\* Boolean::ternary: folded for a constant condition or two constant inputs;
\* otherwise a private witness under condition * (first - second) = output - second.
bool_ternary(c, condition, first, second) ==
    IF is_constant(condition) THEN Ret(c, IF condition.value THEN first ELSE second)
    ELSE IF is_constant(first) /\ is_constant(second)
    THEN Ret(c, CASE first.value /\ second.value -> first
                  [] first.value /\ ~second.value -> condition
                  [] ~first.value /\ second.value -> not(condition)
                  [] OTHER -> second)
    ELSE Bind(new_variable(c, Private,
                           b2f(IF condition.value THEN first.value ELSE second.value)),
              LAMBDA w :
         Bind(enforce(w.c, from_boolean(condition),
                      field_sub(from_boolean(first), from_boolean(second)),
                      field_sub(w.out, from_boolean(second))), LAMBDA e :
         Ret(e.c, Val(Private, IF condition.value THEN first.value ELSE second.value))))

\* carry.iter().fold(Boolean::constant(false), |a, b| a | b)
RECURSIVE fold_or(_, _, _, _)
fold_or(c, acc, bits, i) ==
    IF i > Len(bits) THEN Ret(c, acc)
    ELSE Bind(bool_or(c, acc, bits[i]), LAMBDA r : fold_or(r.c, r.out, bits, i + 1))

---------------------------------------------------------------------------
(* Integers: IntBits Booleans, least significant first.  A native integer  *)
(* is kept as its bit pattern, a number in 0 .. 2^IntBits - 1.             *)

Patterns == 0 .. (Pow2(IntBits) - 1)

\* The native value of a bit pattern.
native(signed, u) == IF signed /\ u >= Pow2(IntBits - 1) THEN u - Pow2(IntBits) ELSE u

\* I::MIN and I::MAX, as native values.
MIN(signed) == IF signed THEN 0 - Pow2(IntBits - 1) ELSE 0
MAX(signed) == IF signed THEN Pow2(IntBits - 1) - 1 ELSE Pow2(IntBits) - 1

\* The bit pattern of a native value in range.
pattern(v) == (v + Pow2(IntBits)) % Pow2(IntBits)

in_range(signed, v) == MIN(signed) <= v /\ v <= MAX(signed)

\* checked_mul, checked_sub: None when the result is out of range.
checked_mul(signed, a, b) ==
    LET v == native(signed, a) * native(signed, b)
    IN  IF in_range(signed, v) THEN Some(pattern(v)) ELSE None

checked_sub(signed, a, b) ==
    LET v == native(signed, a) - native(signed, b)
    IN  IF in_range(signed, v) THEN Some(pattern(v)) ELSE None

\* wrapping_sub: the difference modulo 2^IntBits.
wrapping_sub(a, b) == (a - b + Pow2(IntBits)) % Pow2(IntBits)

\* Integer::new: one Boolean per bit.
integer_new(c, mode, u) == booleans_new(c, mode, to_bits_le(u, IntBits), <<>>)

\* Integer::eject_value, as a bit pattern.
RECURSIVE eject_bits(_, _)
eject_bits(bits, i) ==
    IF i > Len(bits) THEN 0
    ELSE b2f(bits[i].value) * Pow2(i - 1) + eject_bits(bits, i + 1)

eject_value(x) == eject_bits(x, 1)

\* Integer::is_constant
integer_is_constant(x) == \A i \in 1 .. Len(x) : is_constant(x[i])

\* Integer::to_field: the bits summed with weights 2^i.
to_field(x) == accumulate(x, 1, zero)

\* !integer: every bit negated.
integer_not(x) == [i \in 1 .. Len(x) |-> not(x[i])]

\* Integer::msb
msb(x) == x[Len(x)]

\* Integer::zero
integer_zero(c) == integer_new(c, Constant, 0)

\* Integer::ternary: Boolean::ternary bit by bit.
RECURSIVE integer_ternary(_, _, _, _, _)
integer_ternary(c, condition, first, second, acc) ==
    IF Len(acc) = Len(first) THEN Ret(c, acc)
    ELSE Bind(bool_ternary(c, condition, first[Len(acc) + 1], second[Len(acc) + 1]),
              LAMBDA r :
         integer_ternary(r.c, condition, first, second, Append(acc, r.out)))

\* A wrapped subtraction that keeps the carry bit as the top bit's neighbour:
\* it drops the lowest bit instead of the carry.
drop_carry_low(bits) == SubSeq(bits, 2, Len(bits))

\* sub_wrapped, line 37: bits_le.pop()
drop_carry(bits) == SubSeq(bits, 1, Len(bits) - 1)

\* Integer::sub_wrapped
sub_wrapped(c, self, other) ==
    IF integer_is_constant(self) /\ integer_is_constant(other)
    THEN integer_new(c, Constant, wrapping_sub(eject_value(self), eject_value(other)))
    ELSE Bind(to_lower_bits_le(c, field_add(field_add(to_field(self),
                                                      to_field(integer_not(other))), one),
                               IntBits + 1), LAMBDA bits_le :
         Ret(bits_le.c, drop_carry(bits_le.out)))

\* The unsigned check with the carry required to be zero.
unsigned_underflow_check_inverted(c, carry) == assert_eq(c, from_boolean(carry), zero)

\* sub_checked, line 103: E::assert_eq(carry, E::one())
unsigned_underflow_check(c, carry) == assert_eq(c, from_boolean(carry), one)

\* sub_checked, lines 98-100: the signed check.
signed_underflow_check(c, self, other, difference) ==
    Bind(bool_is_not_equal(c, msb(self), msb(other)), LAMBDA is_different_signs :
    Bind(bool_is_equal(is_different_signs.c, msb(difference), msb(other)), LAMBDA same :
    Bind(bool_and(same.c, is_different_signs.out, same.out), LAMBDA is_underflow :
    assert_eq(is_underflow.c, from_boolean(is_underflow.out), zero))))

\* Integer::sub_checked
sub_checked(c, signed, self, other) ==
    IF integer_is_constant(self) /\ integer_is_constant(other)
    THEN IF checked_sub(signed, eject_value(self), eject_value(other)) = None
         THEN halt(c)
         ELSE integer_new(c, Constant,
                          unwrap(checked_sub(signed, eject_value(self), eject_value(other))))
    ELSE Bind(to_lower_bits_le(c, field_add(field_add(to_field(self),
                                                      to_field(integer_not(other))), one),
                               IntBits + 1), LAMBDA bits_le :
         IF bits_le.out = <<>> THEN halt(bits_le.c)
         ELSE Bind(IF signed
                   THEN signed_underflow_check(bits_le.c, self, other,
                                               SubSeq(bits_le.out, 1, Len(bits_le.out) - 1))
                   ELSE unsigned_underflow_check(bits_le.c, bits_le.out[Len(bits_le.out)]),
                   LAMBDA check :
              Ret(check.c, SubSeq(bits_le.out, 1, Len(bits_le.out) - 1))))

\* Integer::abs_wrapped: for a signed integer, ternary(msb, 0 - self, self).
abs_wrapped(c, signed, self) ==
    IF ~signed THEN Ret(c, self)
    ELSE Bind(integer_zero(c), LAMBDA z :
         Bind(sub_wrapped(z.c, z.out, self), LAMBDA negated :
         integer_ternary(negated.c, msb(self), negated.out, self, <<>>)))

\* Integer::mul_with_carry: the product of the two integers as field elements,
\* decomposed into 2 * IntBits bits: the low half is the product, the high
\* half the carry.
mul_with_carry(c, this, that) ==
    Bind(field_mul(c, to_field(this), to_field(that)), LAMBDA product :
    Bind(to_lower_bits_le(product.c, product.out, 2 * IntBits), LAMBDA bits_le :
    Ret(bits_le.c, [product |-> SubSeq(bits_le.out, 1, IntBits),
                    carry |-> SubSeq(bits_le.out, IntBits + 1, 2 * IntBits)])))

constant_false == Val(Constant, FALSE)

\* A signed check that forgets the bound of a positive product.
positive_product_overflows_never(c, operands_same_sign, product) == Ret(c, constant_false)

\* mul_checked, line 88: operands_same_sign & product.msb()
positive_product_overflows(c, operands_same_sign, product) ==
    bool_and(c, operands_same_sign, msb(product))

\* mul_checked, lines 91-97: a negative product below the signed minimum.
negative_product_underflows(c, operands_same_sign, product) ==
    Bind(fold_or(c, constant_false, SubSeq(product, 1, IntBits - 1), 1),
         LAMBDA lower_product_bits_nonzero :
    Bind(bool_and(lower_product_bits_nonzero.c, msb(product),
                  not(lower_product_bits_nonzero.out)), LAMBDA msb_and_lower_zero :
    Bind(bool_or(msb_and_lower_zero.c, not(msb(product)), msb_and_lower_zero.out),
         LAMBDA negative_product_lt_or_eq_signed_min :
    bool_and(negative_product_lt_or_eq_signed_min.c, not(operands_same_sign),
             not(negative_product_lt_or_eq_signed_min.out)))))

\* mul_checked, lines 79-104: the signed case.
mul_checked_signed(c, self, other) ==
    Bind(abs_wrapped(c, TRUE, self), LAMBDA self_abs :
    Bind(abs_wrapped(self_abs.c, TRUE, other), LAMBDA other_abs :
    Bind(mul_with_carry(other_abs.c, self_abs.out, other_abs.out), LAMBDA pc :
    Bind(fold_or(pc.c, constant_false, pc.out.carry, 1), LAMBDA carry_bits_nonzero :
    Bind(bool_is_equal(carry_bits_nonzero.c, msb(self), msb(other)),
         LAMBDA operands_same_sign :
    Bind(positive_product_overflows(operands_same_sign.c, operands_same_sign.out,
                                    pc.out.product), LAMBDA positive :
    Bind(negative_product_underflows(positive.c, operands_same_sign.out, pc.out.product),
         LAMBDA negative :
    Bind(bool_or(negative.c, carry_bits_nonzero.out, positive.out), LAMBDA overflow1 :
    Bind(bool_or(overflow1.c, overflow1.out, negative.out), LAMBDA overflow :
    Bind(assert_eq(overflow.c, from_boolean(overflow.out), zero), LAMBDA check :
    Bind(integer_zero(check.c), LAMBDA z :
    Bind(sub_wrapped(z.c, z.out, pc.out.product), LAMBDA negated :
    integer_ternary(negated.c, operands_same_sign.out, pc.out.product, negated.out,
                    <<>>)))))))))))))

\* mul_checked, lines 106-114: the unsigned case.
mul_checked_unsigned(c, self, other) ==
    Bind(mul_with_carry(c, self, other), LAMBDA pc :
    Bind(fold_or(pc.c, constant_false, pc.out.carry, 1), LAMBDA overflow :
    Bind(assert_eq(overflow.c, from_boolean(overflow.out), zero), LAMBDA check :
    Ret(check.c, pc.out.product))))

\* A constant branch that wraps the product instead of halting on overflow.
mul_checked_constants_wrap(c, signed, self, other) ==
    IF integer_is_constant(self) /\ integer_is_constant(other)
    THEN integer_new(c, Constant,
                     pattern((native(signed, eject_value(self))
                              * native(signed, eject_value(other))) % Pow2(IntBits)))
    ELSE IF signed THEN mul_checked_signed(c, self, other)
    ELSE mul_checked_unsigned(c, self, other)

\* A multiplication that returns at once when its first operand is zero.
mul_checked_zero_first(c, signed, self, other) ==
    IF eject_value(self) = 0 THEN Ret(c, self)
    ELSE IF integer_is_constant(self) /\ integer_is_constant(other)
    THEN IF checked_mul(signed, eject_value(self), eject_value(other)) = None
         THEN halt(c)
         ELSE integer_new(c, Constant,
                          unwrap(checked_mul(signed, eject_value(self), eject_value(other))))
    ELSE IF signed THEN mul_checked_signed(c, self, other)
    ELSE mul_checked_unsigned(c, self, other)

\* Integer::mul_checked
mul_checked(c, signed, self, other) ==
    IF integer_is_constant(self) /\ integer_is_constant(other)
    THEN IF checked_mul(signed, eject_value(self), eject_value(other)) = None
         THEN halt(c)
         ELSE integer_new(c, Constant,
                          unwrap(checked_mul(signed, eject_value(self), eject_value(other))))
    ELSE IF signed THEN mul_checked_signed(c, self, other)
    ELSE mul_checked_unsigned(c, self, other)

---------------------------------------------------------------------------
(* Integer operations as state machines.                                   *)

IntegerOps == {"mul_checked", "sub_checked", "sub_wrapped"}

IntegerCalls ==
    [op : IntegerOps, signed : BOOLEAN, mode_a : Modes, mode_b : Modes,
     a : Patterns, b : Patterns]

InitInteger == InitGadget /\ call \in IntegerCalls

\* Integer::new(mode_a, first), Integer::new(mode_b, second)
AllocateInteger ==
    /\ call.op \in IntegerOps
    /\ outcome.kind = "none"
    /\ LET a == integer_new(circuit, call.mode_a, call.a)
           b == integer_new(a.c, call.mode_b, call.b)
       IN  /\ circuit' = b.c
           /\ outcome' = [kind |-> "allocated", args |-> [a |-> a.out, b |-> b.out],
                          before |-> b.c]
    /\ UNCHANGED call
    /\ GadgetFrame

IntegerFinish(r) ==
    IF r.halt THEN [kind |-> "halted", before |-> circuit]
    ELSE [kind |-> "done", out |-> r.out, before |-> circuit]

MulChecked ==
    /\ call.op = "mul_checked"
    /\ outcome.kind = "allocated"
    /\ LET r == mul_checked(circuit, call.signed, outcome.args.a, outcome.args.b)
       IN  /\ circuit' = r.c
           /\ outcome' = IntegerFinish(r)
    /\ UNCHANGED call
    /\ GadgetFrame

SubChecked ==
    /\ call.op = "sub_checked"
    /\ outcome.kind = "allocated"
    /\ LET r == sub_checked(circuit, call.signed, outcome.args.a, outcome.args.b)
       IN  /\ circuit' = r.c
           /\ outcome' = IntegerFinish(r)
    /\ UNCHANGED call
    /\ GadgetFrame

SubWrapped ==
    /\ call.op = "sub_wrapped"
    /\ outcome.kind = "allocated"
    /\ LET r == sub_wrapped(circuit, outcome.args.a, outcome.args.b)
       IN  /\ circuit' = r.c
           /\ outcome' = IntegerFinish(r)
    /\ UNCHANGED call
    /\ GadgetFrame

NextInteger == AllocateInteger \/ MulChecked \/ SubChecked \/ SubWrapped \/ Reset

SpecInteger == InitInteger /\ [][NextInteger]_vars

(***************************************************************************)
(* Claims about the checked and wrapped integer operations.                *)
(***************************************************************************)

IntegerReturned(op) == call.op = op /\ outcome.kind \in {"done", "halted"}

BothConstant == call.mode_a = Constant /\ call.mode_b = Constant

SignBit(u) == u >= Pow2(IntBits - 1)

Abs(v) == IF v < 0 THEN 0 - v ELSE v

\* The magnitude bound of a signed product, as the claim states it.
SignedProductFits ==
    LET magnitude == Abs(native(TRUE, call.a)) * Abs(native(TRUE, call.b))
    IN  IF SignBit(call.a) = SignBit(call.b)
        THEN magnitude <= MAX(TRUE)
        ELSE magnitude <= Abs(MIN(TRUE))

\* C3: with at least one operand not Constant, mul_checked returns without
\* halting; the circuit is satisfied exactly when the native checked_mul is
\* Some(v), and then the result ejects v; for a signed type that is exactly
\* when the magnitude of the product is at most MAX for operands of the same
\* sign and at most |MIN| for operands of different signs.
C3_MulChecked ==
    (IntegerReturned("mul_checked") /\ ~BothConstant) =>
        /\ outcome.kind = "done"
        /\ is_satisfied(circuit) <=> (checked_mul(call.signed, call.a, call.b) # None)
        /\ checked_mul(call.signed, call.a, call.b) # None =>
               eject_value(outcome.out) = unwrap(checked_mul(call.signed, call.a, call.b))
        /\ call.signed => (is_satisfied(circuit) <=> SignedProductFits)

\* MIN * 1 on non-constant operands: satisfied, and the result is MIN.
C3_Witness ==
    /\ IntegerReturned("mul_checked")
    /\ call.signed /\ call.mode_a = Private /\ call.mode_b = Public
    /\ call.a = pattern(MIN(TRUE)) /\ call.b = 1
    /\ outcome.kind = "done"
    /\ is_satisfied(circuit)
    /\ eject_value(outcome.out) = pattern(MIN(TRUE))

\* C4: with at least one operand not Constant, sub_checked returns without
\* halting; the circuit is satisfied exactly when the native checked_sub is
\* Some(v), and then the result ejects v; for an unsigned type that is a >= b
\* (carry bit 1), for a signed type the circuit is unsatisfied exactly when
\* the sign bits of the operands differ and the difference has the sign bit
\* of b.
C4_SubChecked ==
    (IntegerReturned("sub_checked") /\ ~BothConstant) =>
        /\ outcome.kind = "done"
        /\ is_satisfied(circuit) <=> (checked_sub(call.signed, call.a, call.b) # None)
        /\ checked_sub(call.signed, call.a, call.b) # None =>
               eject_value(outcome.out) = unwrap(checked_sub(call.signed, call.a, call.b))
        /\ ~call.signed => (is_satisfied(circuit) <=> call.a >= call.b)
        /\ call.signed =>
               (~is_satisfied(circuit) <=>
                    /\ SignBit(call.a) # SignBit(call.b)
                    /\ SignBit(wrapping_sub(call.a, call.b)) = SignBit(call.b))

\* An unsigned underflow on public operands: returned, but unsatisfied.
C4_Witness ==
    /\ IntegerReturned("sub_checked")
    /\ ~call.signed /\ call.mode_a = Public /\ call.mode_b = Public
    /\ call.a = 1 /\ call.b = 2
    /\ outcome.kind = "done"
    /\ ~is_satisfied(circuit)

\* C5: in every combination of modes sub_wrapped returns without halting,
\* its result ejects the native wrapping_sub, and the circuit is satisfied.
C5_SubWrapped ==
    IntegerReturned("sub_wrapped") =>
        /\ outcome.kind = "done"
        /\ eject_value(outcome.out) = wrapping_sub(call.a, call.b)
        /\ is_satisfied(circuit)

\* MIN - 1 wraps to MAX.
C5_Witness ==
    /\ IntegerReturned("sub_wrapped")
    /\ call.signed /\ call.mode_a = Private /\ call.mode_b = Constant
    /\ call.a = pattern(MIN(TRUE)) /\ call.b = 1
    /\ outcome.kind = "done"
    /\ eject_value(outcome.out) = pattern(MAX(TRUE))
    /\ is_satisfied(circuit)

NativeChecked ==
    IF call.op = "mul_checked" THEN checked_mul(call.signed, call.a, call.b)
    ELSE checked_sub(call.signed, call.a, call.b)

\* C7: on two Constant operands mul_checked and sub_checked halt exactly
\* when the native checked operation is None; otherwise the result is a
\* Constant holding the native result, and no constraint, public variable
\* or private variable was added.
C7_ConstantOperands ==
    (call.op \in {"mul_checked", "sub_checked"} /\ BothConstant
       /\ outcome.kind \in {"done", "halted"}) =>
        /\ outcome.kind = "halted" <=> (NativeChecked = None)
        /\ outcome.kind = "done" =>
               /\ integer_is_constant(outcome.out)
               /\ eject_value(outcome.out) = unwrap(NativeChecked)
               /\ circuit.constraints = outcome.before.constraints
               /\ circuit.public = outcome.before.public
               /\ circuit.private = outcome.before.private

\* Constant MAX * 2 of an unsigned type halts.
C7_Witness ==
    /\ call.op = "mul_checked" /\ BothConstant /\ ~call.signed
    /\ call.a = MAX(FALSE) /\ call.b = 2
    /\ outcome.kind = "halted"

---------------------------------------------------------------------------
(* Evaluation of a polynomial, over a point and over a domain, and the     *)
(* conversions of DenseOrSparsePolynomial.                                 *)

\* A generator of the multiplicative group of the field.
GENERATOR == 10

\* The sizes of the evaluation domains the field has: the powers of two
\* that divide Modulus - 1.
DomainSizes == {1, 2, 4}

\* EvaluationDomain::group_gen: a generator of the subgroup of the given size.
group_gen(size) == FPow(GENERATOR, (Modulus - 1) \div size)

\* EvaluationDomain::elements(): 1, g, g^2, ...
elements(size) == [i \in 1 .. size |-> FPow(group_gen(size), i - 1)]

\* DensePolynomial::evaluate: Horner's rule from the leading coefficient down.
RECURSIVE horner(_, _, _, _)
horner(c, i, point, acc) ==
    IF i = 0 THEN acc
    ELSE horner(c, i - 1, point, FAdd(FMul(acc, point), c[i]))

dense_evaluate(c, point) == horner(c, Len(c), point, 0)

\* SparsePolynomial::evaluate: the sum of coefficient * point^degree over the terms.
RECURSIVE sparse_evaluate_from(_, _, _)
sparse_evaluate_from(s, i, point) ==
    IF i > Len(s) THEN 0
    ELSE FAdd(FMul(s[i][2], FPow(point, s[i][1])), sparse_evaluate_from(s, i + 1, point))

sparse_evaluate(s, point) == sparse_evaluate_from(s, 1, point)

\* DenseOrSparsePolynomial::evaluate
evaluate(p, point) ==
    IF p.kind = "S" THEN sparse_evaluate(p.sparse, point) ELSE dense_evaluate(p.dense, point)

\* The coefficient vector brought to the size of the domain: coefficient j
\* is added to position j mod size (x^size = 1 on the domain).
RECURSIVE fold_coefficients(_, _, _)
fold_coefficients(c, size, j) ==
    IF j > Len(c) THEN [i \in 1 .. size |-> 0]
    ELSE LET rest == fold_coefficients(c, size, j + 1)
             pos == ((j - 1) % size) + 1
         IN  [rest EXCEPT ![pos] = FAdd(@, c[j])]

\* The radix-2 transform of a vector whose length is a power of two.
RECURSIVE in_order_fft(_, _)
in_order_fft(a, omega) ==
    IF Len(a) = 1 THEN a
    ELSE LET half == Len(a) \div 2
             even == in_order_fft([i \in 1 .. half |-> a[2 * i - 1]], FMul(omega, omega))
             odd == in_order_fft([i \in 1 .. half |-> a[2 * i]], FMul(omega, omega))
         IN  [k \in 1 .. Len(a) |->
                IF k <= half
                THEN FAdd(even[k], FMul(FPow(omega, k - 1), odd[k]))
                ELSE FSub(even[k - half], FMul(FPow(omega, k - half - 1), odd[k - half]))]

\* EvaluationDomain::fft_in_place: the buffer ends as the evaluations.
fft_in_place(c, size) == in_order_fft(fold_coefficients(c, size, 1), group_gen(size))

\* EvaluationDomain::fft: the transform of a copy of the coefficients.
fft(c, size) == fft_in_place(c, size)

\* The sparse arms of eval_over_domain_helper, without the last domain element.
sparse_over_domain_short(s, size) ==
    [i \in 1 .. size |->
        IF i = size /\ size > 1 THEN 0 ELSE sparse_evaluate(s, elements(size)[i])]

\* The sparse arms of eval_over_domain_helper: evaluate at every element.
sparse_over_domain(s, size) == [i \in 1 .. size |-> sparse_evaluate(s, elements(size)[i])]

\* Result: Ok(v) and Err(()).
Ok(v) == [ok |-> TRUE, value |-> v]
Err == [ok |-> FALSE, value |-> <<>>]

\* A conversion that also hands back a dense polynomial's terms.
try_into_sparse_lenient(p) == IF p.kind = "S" THEN Ok(p.sparse) ELSE Ok(to_sparse(p.dense))

\* TryInto<SparsePolynomial> for DenseOrSparsePolynomial
try_into_sparse(p) == IF p.kind = "S" THEN Ok(p.sparse) ELSE Err

EvalCalls ==
    [op : {"evaluate_over_domain"}, poly : Polynomials, owned : BOOLEAN, size : DomainSizes]

ConversionCalls == [op : {"into", "try_into"}, poly : Polynomials]

InitEval == InitGadget /\ call \in EvalCalls \cup ConversionCalls

EvalFrame == UNCHANGED <<call, circuit>> /\ GadgetFrame

\* SPolynomial(Cow::Borrowed(s)) and SPolynomial(Cow::Owned(s))
EvaluateSparse ==
    /\ call.op = "evaluate_over_domain"
    /\ outcome.kind = "none"
    /\ call.poly.kind = "S"
    /\ outcome' = Done(sparse_over_domain(call.poly.sparse, call.size))
    /\ EvalFrame

\* DPolynomial(Cow::Borrowed(d))
EvaluateDenseBorrowed ==
    /\ call.op = "evaluate_over_domain"
    /\ outcome.kind = "none"
    /\ call.poly.kind = "D" /\ ~call.owned
    /\ outcome' = Done(fft(call.poly.dense, call.size))
    /\ EvalFrame

\* DPolynomial(Cow::Owned(mut d))
EvaluateDenseOwned ==
    /\ call.op = "evaluate_over_domain"
    /\ outcome.kind = "none"
    /\ call.poly.kind = "D" /\ call.owned
    /\ outcome' = Done(fft_in_place(call.poly.dense, call.size))
    /\ EvalFrame

\* Into<DensePolynomial>
IntoDense ==
    /\ call.op = "into"
    /\ outcome.kind = "none"
    /\ outcome' = Done(into_dense(call.poly))
    /\ EvalFrame

\* TryInto<SparsePolynomial>
TryIntoSparse ==
    /\ call.op = "try_into"
    /\ outcome.kind = "none"
    /\ outcome' = Done(try_into_sparse(call.poly))
    /\ EvalFrame

NextEval ==
    \/ EvaluateSparse
    \/ EvaluateDenseBorrowed
    \/ EvaluateDenseOwned
    \/ IntoDense
    \/ TryIntoSparse

SpecEval == InitEval /\ [][NextEval]_vars

---------------------------------------------------------------------------
(* Claims about evaluation and conversion.                                 *)

EvaluatedOverDomain == call.op = "evaluate_over_domain" /\ outcome.kind = "done"

C13_Conversions ==
    /\ (call.op = "into" /\ outcome.kind # "none") =>
          /\ outcome.kind = "done"
          /\ \A point \in F : dense_evaluate(outcome.out, point) = evaluate(call.poly, point)
    /\ (call.op = "try_into" /\ outcome.kind # "none") =>
          /\ outcome.kind = "done"
          /\ call.poly.kind = "D" => outcome.out = Err
          /\ call.poly.kind = "S" => outcome.out = Ok(call.poly.sparse)

\* A nonzero dense polynomial asked for as a SparsePolynomial: an error value.
C13_Witness ==
    /\ call.op = "try_into"
    /\ outcome.kind = "done"
    /\ call.poly.kind = "D" /\ call.poly.dense = <<0, 0, 2>>
    /\ outcome.out = Err

---------------------------------------------------------------------------
(* Field equality and division over every pair of modes.                   *)

EqualCalls ==
    [op : {"is_equal", "is_not_equal"}, mode_a : Modes, mode_b : Modes,
     a : FieldSample, b : FieldSample]

InitField == InitGadget /\ call \in EqualCalls \cup DivCalls

\* Field::new(mode_a, a), Field::new(mode_b, b)
AllocateEqual ==
    /\ call.op \in {"is_equal", "is_not_equal"}
    /\ outcome.kind = "none"
    /\ LET a == field_new(circuit, call.mode_a, call.a)
           b == field_new(a.c, call.mode_b, call.b)
       IN  /\ circuit' = b.c
           /\ outcome' = Allocated([a |-> a.out, b |-> b.out])
    /\ UNCHANGED call
    /\ GadgetFrame

\* a.is_equal(&b)
IsEqual ==
    /\ call.op = "is_equal"
    /\ outcome.kind = "allocated"
    /\ LET r == is_equal(circuit, outcome.args.a, outcome.args.b)
       IN  /\ circuit' = r.c
           /\ outcome' = Finish(r)
    /\ UNCHANGED call
    /\ GadgetFrame

\* a.is_not_equal(&b)
IsNotEqual ==
    /\ call.op = "is_not_equal"
    /\ outcome.kind = "allocated"
    /\ LET r == is_not_equal(circuit, outcome.args.a, outcome.args.b)
       IN  /\ circuit' = r.c
           /\ outcome' = Finish(r)
    /\ UNCHANGED call
    /\ GadgetFrame

NextField == AllocateEqual \/ IsEqual \/ IsNotEqual \/ AllocateDiv \/ Div \/ Reset

SpecField == InitField /\ [][NextField]_vars

\* The number of the call's two operands allocated under a mode.
OperandCount(mode) ==
    (IF call.mode_a = mode THEN 1 ELSE 0) + (IF call.mode_b = mode THEN 1 ELSE 0)

BinaryReturned ==
    /\ call.op \in {"is_equal", "is_not_equal", "div"}
    /\ outcome.kind = "done"
    /\ ~(call.mode_a = Constant /\ call.mode_b = Constant)

ConstantWitnessed ==
    /\ call.op = "is_not_equal"
    /\ outcome.kind = "done"
    /\ call.mode_a = Constant /\ call.mode_b = Constant

\* C19 as stated: a witness created in Constant mode does not evaluate its
\* closure and holds the zero element: is_not_equal of two constants, whose
\* result is the witness of the closure self != other, returns false.
C19_ConstantHoldsZero ==
    ConstantWitnessed => (outcome.out.mode = Constant /\ outcome.out.value = FALSE)

\* C19: a witness created in Constant mode holds the value of its closure,
\* as in the other modes: is_not_equal of two constants returns a constant
\* that is true exactly when they differ, and allocates nothing but
\* constants.
C19_ConstantHoldsClosureValue ==
    ConstantWitnessed =>
        /\ outcome.out.mode = Constant
        /\ outcome.out.value = (call.a # call.b)
        /\ circuit.public = 0 /\ circuit.private = 0 /\ circuit.constraints = 0

\* Two different constants: the constant result is true, not the default.
C19_Witness ==
    /\ ConstantWitnessed
    /\ call.a # call.b
    /\ outcome.out.mode = Constant
    /\ outcome.out.value = TRUE
    /\ circuit.constants = 3

\* C21: is_equal and is_not_equal on operands that are not both Constant add
\* exactly 2 private variables and 3 constraints, whether the values are
\* equal or not; on two Constant operands they add exactly 1 constant and
\* no constraint, public or private variable.
C21_EqualCost ==
    (call.op \in {"is_equal", "is_not_equal"} /\ outcome.kind \in {"done", "halted"}) =>
        /\ outcome.kind = "done"
        /\ IF call.mode_a = Constant /\ call.mode_b = Constant
           THEN /\ circuit.constants = OperandCount(Constant) + 1
                /\ circuit.public = 0
                /\ circuit.private = 0
                /\ circuit.constraints = 0
           ELSE /\ circuit.private = OperandCount(Private) + 2
                /\ circuit.constraints = 3

\* Equal values on a Constant and a Public operand: 2 private, 3 constraints.
C21_Witness ==
    /\ call.op = "is_equal"
    /\ outcome.kind = "done"
    /\ call.mode_a = Constant /\ call.mode_b = Public
    /\ call.a = call.b
    /\ circuit.private = 2
    /\ circuit.constraints = 3
    /\ circuit.public = 1

\* C20: for all field values a, b and every pair of modes, is_equal returns
\* true exactly when a = b and is_not_equal exactly when a # b, so each is
\* the negation of the other; with the witnesses the gadget computes the
\* circuit is satisfied, and the call does not halt.
C20_IsEqual ==
    (call.op \in {"is_equal", "is_not_equal"} /\ outcome.kind \in {"done", "halted"}) =>
        /\ outcome.kind = "done"
        /\ call.op = "is_equal" => (outcome.out.value <=> call.a = call.b)
        /\ call.op = "is_not_equal" => (outcome.out.value <=> call.a # call.b)
        /\ is_satisfied(circuit)

\* a = b on a Private and a Public operand: true, and satisfied.
C20_Witness ==
    /\ call.op = "is_equal"
    /\ outcome.kind = "done"
    /\ call.mode_a = Private /\ call.mode_b = Public
    /\ call.a = 5 /\ call.b = 5
    /\ outcome.out.value
    /\ circuit.constraints = 3
    /\ is_satisfied(circuit)

---------------------------------------------------------------------------
(* The environment under any sequence of its operations.  The circuit      *)
(* holds the totals; call.stack is the stack of scopes, each frame holding *)
(* the counts at the time the scope was entered; outcome remembers the     *)
(* operation done last and the state it started from.                      *)

\* Longest sequence of environment operations.
MaxOps == 3

\* Deepest nesting of scopes.
MaxDepth == 2

\* Environment::num_gates: one multiplication gate per recorded constraint.
num_gates(c) == Len(c.gates)

\* The counters of a circuit.
counts(c) ==
    [constants |-> c.constants, public |-> c.public, private |-> c.private,
     constraints |-> c.constraints, gates |-> num_gates(c)]

ZeroCounts == [constants |-> 0, public |-> 0, private |-> 0, constraints |-> 0, gates |-> 0]

\* The frame of a scope: its name and the counts so far.
frame(name, c) == [name |-> name, at |-> counts(c)]

\* A push that records no counts: the scope counts from the start of the circuit.
push_scope_from_origin(stack, name, c) == Append(stack, [name |-> name, at |-> ZeroCounts])

\* Circuit::scope, entering: push a named frame recording the counts so far.
push_scope(stack, name, c) == Append(stack, frame(name, c))

\* Circuit::scope, leaving: pop the frame.
pop_scope(stack) == SubSeq(stack, 1, Len(stack) - 1)

\* A panic that leaves the scopes it passes through on the stack.
unwind_keeps_scopes(stack) == stack

\* A panic inside `logic` leaves every scope it passes through: each push is
\* matched by a pop on this path too.
RECURSIVE unwind(_)
unwind(stack) == IF stack = <<>> THEN stack ELSE unwind(pop_scope(stack))

\* num_constants_in_scope and the like: what was created since the innermost
\* scope was entered (since the start, outside every scope).
in_scope(c, stack) ==
    LET at == IF stack = <<>> THEN ZeroCounts ELSE stack[Len(stack)].at
    IN  [constants |-> c.constants - at.constants, public |-> c.public - at.public,
         private |-> c.private - at.private, constraints |-> c.constraints - at.constraints,
         gates |-> num_gates(c) - at.gates]

\* E::new_witness: the closure's value, allocated under the mode.
new_witness(c, mode, closure) == new_variable(c, mode, closure)

\* E::assert: enforce(boolean, one, one)
assert_boolean(c, boolean) == enforce(c, boolean, one, one)

\* A reset that keeps the recorded gates.
reset_keeps_gates(c) == [EmptyCircuit EXCEPT !.gates = c.gates]

\* Environment::reset: a fresh circuit.
reset(c) == EmptyCircuit

\* The linear combinations the operations are tried on.
Terms == {Val(Constant, 0), Val(Constant, 1), Val(Private, 0), Val(Private, 1)}

ScopeNames == {"scope"}

EnvCall(stack) == [op |-> "env", stack |-> stack]

\* What is remembered of an operation: its name, what it was given, and the
\* circuit and the stack it started from.
EnvOutcome(last, arg, halted) ==
    [kind |-> "env", last |-> last, arg |-> arg, halted |-> halted,
     steps |-> (IF outcome.kind = "env" THEN outcome.steps ELSE 0) + 1,
     before |-> circuit, stack_before |-> call.stack]

InitEnv ==
    /\ InitGadget
    /\ call = EnvCall(<<>>)

EnvReady ==
    /\ call.op = "env"
    /\ IF outcome.kind = "none" THEN TRUE ELSE outcome.steps < MaxOps

\* What a call that returned r leaves: on a halt the panic unwinds the scopes.
EnvAfter(last, arg, r) ==
    /\ circuit' = r.c
    /\ call' = EnvCall(IF r.halt THEN unwind(call.stack) ELSE call.stack)
    /\ outcome' = EnvOutcome(last, arg, r.halt)
    /\ GadgetFrame

EnvNewVariable ==
    /\ EnvReady
    /\ \E mode \in Modes, value \in {1} :
          EnvAfter("new_variable", <<Val(mode, value)>>, new_variable(circuit, mode, value))

EnvNewWitness ==
    /\ EnvReady
    /\ \E mode \in Modes, value \in {1} :
          EnvAfter("new_witness", <<Val(mode, value)>>, new_witness(circuit, mode, value))

EnvEnforce ==
    /\ EnvReady
    /\ \E a \in Terms, b \in Terms, cc \in Terms :
          EnvAfter("enforce", <<a, b, cc>>, enforce(circuit, a, b, cc))

EnvAssert ==
    /\ EnvReady
    /\ \E boolean \in Terms :
          EnvAfter("assert", <<boolean>>, assert_boolean(circuit, boolean))

EnvAssertEq ==
    /\ EnvReady
    /\ \E a \in Terms, b \in Terms :
          EnvAfter("assert_eq", <<a, b>>, assert_eq(circuit, a, b))

\* Circuit::scope: the frame is pushed and `logic` starts.
EnvScopeEnter ==
    /\ EnvReady
    /\ Len(call.stack) < MaxDepth
    /\ \E name \in ScopeNames :
          /\ call' = EnvCall(push_scope(call.stack, name, circuit))
          /\ outcome' = EnvOutcome("scope_enter", <<name>>, FALSE)
    /\ UNCHANGED circuit
    /\ GadgetFrame

\* Circuit::scope: `logic` returned and the frame is popped.
EnvScopeLeave ==
    /\ EnvReady
    /\ call.stack # <<>>
    /\ call' = EnvCall(pop_scope(call.stack))
    /\ outcome' = EnvOutcome("scope_leave", <<>>, FALSE)
    /\ UNCHANGED circuit
    /\ GadgetFrame

\* E::halt inside `logic`: the panic ends every scope it passes through.
EnvHalt ==
    /\ EnvReady
    /\ EnvAfter("halt", <<>>, halt(circuit))

\* Circuit::reset
EnvReset ==
    /\ EnvReady
    /\ circuit' = reset(circuit)
    /\ call' = EnvCall(<<>>)
    /\ outcome' = EnvOutcome("reset", <<>>, FALSE)
    /\ GadgetFrame

NextEnv ==
    \/ EnvNewVariable
    \/ EnvNewWitness
    \/ EnvEnforce
    \/ EnvAssert
    \/ EnvAssertEq
    \/ EnvScopeEnter
    \/ EnvScopeLeave
    \/ EnvHalt
    \/ EnvReset

SpecEnv == InitEnv /\ [][NextEnv]_vars

---------------------------------------------------------------------------
(* Claims about the environment.                                           *)

EnvDid(last) == outcome.kind = "env" /\ outcome.last = last

\* C15: after any sequence of operations, reset() leaves the empty
\* environment: every total and in-scope counter is zero, no gate is
\* recorded, the scope stack is empty, and is_satisfied() is true, also
\* when it was false before.
C15_ResetClears ==
    EnvDid("reset") =>
        /\ counts(circuit) = ZeroCounts
        /\ circuit.gates = <<>>
        /\ call.stack = <<>>
        /\ in_scope(circuit, call.stack) = ZeroCounts
        /\ is_satisfied(circuit)

\* A reset inside a scope of a circuit that was not satisfied.
C15_Witness ==
    /\ EnvDid("reset")
    /\ ~is_satisfied(outcome.before)
    /\ outcome.before.constraints >= 1
    /\ outcome.stack_before # <<>>
    /\ is_satisfied(circuit)
    /\ call.stack = <<>>

AllConstant(terms) == \A i \in 1 .. Len(terms) : is_constant(terms[i])

\* C16: enforce on three constant linear combinations leaves the constraint
\* and gate counters unchanged, in total and in the scope it ran in; a
\* triple with a non-constant term adds exactly one constraint, in total
\* and in the scope.
C16_ConstantTriple ==
    EnvDid("enforce") =>
        LET after == counts(circuit)
            before == counts(outcome.before)
            after_in == in_scope(circuit, outcome.stack_before)
            before_in == in_scope(outcome.before, outcome.stack_before)
        IN  /\ AllConstant(outcome.arg) =>
                  /\ after.constraints = before.constraints
                  /\ after.gates = before.gates
                  /\ after_in.constraints = before_in.constraints
                  /\ after_in.gates = before_in.gates
            /\ ~AllConstant(outcome.arg) =>
                  /\ ~outcome.halted
                  /\ after.constraints = before.constraints + 1
                  /\ after_in.constraints = before_in.constraints + 1

\* A triple of constants enforced inside a scope, after a real constraint.
C16_Witness ==
    /\ EnvDid("enforce")
    /\ AllConstant(outcome.arg)
    /\ ~outcome.halted
    /\ outcome.stack_before # <<>>
    /\ circuit.constraints = 1
    /\ outcome.before.constraints = 1

\* C17: the in-scope counters are zero when a scope is entered, whatever was
\* allocated before, and inside the scope each operation adds to them what
\* it adds to the totals: one constant, public or private variable per
\* allocation of that mode.
C17_ScopeCounters ==
    /\ EnvDid("scope_enter") => in_scope(circuit, call.stack) = ZeroCounts
    /\ (outcome.kind = "env" /\ ~outcome.halted
          /\ outcome.last \in {"new_variable", "new_witness", "enforce", "assert", "assert_eq"}) =>
          LET after_in == in_scope(circuit, call.stack)
              before_in == in_scope(outcome.before, outcome.stack_before)
              after == counts(circuit)
              before == counts(outcome.before)
              mode == outcome.arg[1].mode
          IN  /\ after_in.constants - before_in.constants = after.constants - before.constants
              /\ after_in.public - before_in.public = after.public - before.public
              /\ after_in.private - before_in.private = after.private - before.private
              /\ after_in.constraints - before_in.constraints
                    = after.constraints - before.constraints
              /\ outcome.last \in {"new_variable", "new_witness"} =>
                    /\ after_in.constants = before_in.constants + (IF mode = Constant THEN 1 ELSE 0)
                    /\ after_in.public = before_in.public + (IF mode = Public THEN 1 ELSE 0)
                    /\ after_in.private = before_in.private + (IF mode = Private THEN 1 ELSE 0)
                    /\ after_in.constraints = before_in.constraints

\* One private variable before the scope and one inside it: the scope counts one.
C17_Witness ==
    /\ EnvDid("new_variable")
    /\ Len(call.stack) = 1
    /\ circuit.private = 2
    /\ in_scope(circuit, call.stack).private = 1

---------------------------------------------------------------------------
(* Claims about the cost and the value of a field division.                *)

\* C22: for every a and every nonzero b, in each of the nine mode pairs,
\* a / b returns a * b^-1, so that (a / b) * b = a, with a satisfied
\* circuit; with a Constant divisor the division adds one constant and no
\* constraint, public or private variable, whatever the dividend's mode.
C22_Quotient ==
    (call.op = "div" /\ outcome.kind \in {"done", "halted"} /\ call.b # 0) =>
        /\ outcome.kind = "done"
        /\ outcome.out.value = FMul(call.a, unwrap(inverse(call.b)))
        /\ FMul(outcome.out.value, call.b) = call.a
        /\ is_satisfied(circuit)
        /\ call.mode_b = Constant =>
              /\ circuit.constants = OperandCount(Constant) + 1
              /\ circuit.public = OperandCount(Public)
              /\ circuit.private = OperandCount(Private)
              /\ circuit.constraints = 0

\* A Private dividend over a Constant divisor other than one.
C22_Witness ==
    /\ call.op = "div"
    /\ outcome.kind = "done"
    /\ call.mode_a = Private /\ call.mode_b = Constant
    /\ call.b \notin {0, 1}
    /\ call.a # 0
    /\ FMul(outcome.out.value, call.b) = call.a
    /\ circuit.constants = 2
    /\ circuit.constraints = 0

---------------------------------------------------------------------------
(* Group elements: the points (x, y) of the twisted Edwards curve           *)
(* a x^2 + y^2 = 1 + d x^2 y^2 over the field, each coordinate a Field.     *)
(* The curve arithmetic is the collaborator's; the scalar multiplication   *)
(* and the ternary are the gadgets' own.                                    *)

\* Number of bits of a scalar.
ScalarBits == 3

\* The curve's coefficients: a = -1 and a non-square d.
COEFF_A == Modulus - 1
COEFF_D == 2

Affine(x, y) == [x |-> x, y |-> y]

\* The neutral element.
affine_zero == Affine(0, 1)

\* The points the model draws from: the neutral element and points of
\* order 2, 11 and 968.
GroupSample == {affine_zero, Affine(0, Modulus - 1), Affine(145, 23), Affine(7, 377)}

\* The native addition of two points.
affine_add(p, q) ==
    LET t == FMul(COEFF_D, FMul(FMul(p.x, q.x), FMul(p.y, q.y)))
    IN  Affine(FMul(FAdd(FMul(p.x, q.y), FMul(p.y, q.x)), unwrap(inverse(FAdd(1, t)))),
               FMul(FSub(FMul(p.y, q.y), FMul(COEFF_A, FMul(p.x, q.x))),
                    unwrap(inverse(FSub(1, t)))))

\* The native scalar multiple s * p, by repeated addition.
RECURSIVE affine_mul(_, _)
affine_mul(p, s) == IF s = 0 THEN affine_zero ELSE affine_add(affine_mul(p, s - 1), p)

Group(x, y) == [x |-> x, y |-> y]

\* Group::new: the two coordinates.
group_new(c, mode, p) ==
    Bind(field_new(c, mode, p.x), LAMBDA x :
    Bind(field_new(x.c, mode, p.y), LAMBDA y :
    Ret(y.c, Group(x.out, y.out))))

\* Group::zero
group_zero == Group(zero, one)

group_is_constant(g) == is_constant(g.x) /\ is_constant(g.y)

\* Group::eject_value
group_eject(g) == Affine(g.x.value, g.y.value)

\* A constant times a linear combination.
field_scale(k, a) == Val(a.mode, FMul(k, a.value))

\* A witness of a quotient num / den under the gate den * witness = num.
witness_quotient(c, num, den) ==
    Bind(field_new(c, Private, FMul(num.value, unwrap(inverse(den.value)))), LAMBDA w :
    Bind(enforce(w.c, den, w.out, num), LAMBDA e :
    Ret(e.c, w.out)))

\* Group::double: constants for a constant point; otherwise the products
\* xy, xx, yy and the two coordinates as witnessed quotients.
group_double(c, g) ==
    Bind(field_new(c, Constant, COEFF_A), LAMBDA a :
    IF group_is_constant(g)
    THEN group_new(a.c, Constant, affine_add(group_eject(g), group_eject(g)))
    ELSE Bind(field_mul(a.c, g.x, g.y), LAMBDA xy :
         Bind(field_mul(xy.c, g.x, g.x), LAMBDA xx :
         Bind(field_mul(xx.c, g.y, g.y), LAMBDA yy :
         Bind(witness_quotient(yy.c, field_scale(2, xy.out),
                               field_add(field_scale(COEFF_A, xx.out), yy.out)), LAMBDA x3 :
         Bind(witness_quotient(x3.c, field_sub(yy.out, field_scale(COEFF_A, xx.out)),
                               field_sub(field_sub(Val(Constant, 2),
                                                   field_scale(COEFF_A, xx.out)), yy.out)),
              LAMBDA y3 :
         Ret(y3.c, Group(x3.out, y3.out))))))))

\* Group + Group: constants for two constant points; otherwise the products
\* u, v0, v1, v0 * v1 and the two coordinates as witnessed quotients.
group_add(c, g, h) ==
    Bind(field_new(c, Constant, COEFF_A), LAMBDA a :
    Bind(field_new(a.c, Constant, COEFF_D), LAMBDA d :
    IF group_is_constant(g) /\ group_is_constant(h)
    THEN group_new(d.c, Constant, affine_add(group_eject(g), group_eject(h)))
    ELSE Bind(field_mul(d.c, field_add(field_scale(FNeg(COEFF_A), g.x), g.y),
                        field_add(h.x, h.y)), LAMBDA u :
         Bind(field_mul(u.c, g.y, h.x), LAMBDA v0 :
         Bind(field_mul(v0.c, g.x, h.y), LAMBDA v1 :
         Bind(field_mul(v1.c, v0.out, v1.out), LAMBDA v01 :
         Bind(witness_quotient(v01.c, field_add(v0.out, v1.out),
                               field_add(field_scale(COEFF_D, v01.out), one)), LAMBDA x3 :
         Bind(witness_quotient(x3.c,
                               field_sub(field_add(u.out, field_scale(COEFF_A, v1.out)), v0.out),
                               field_sub(one, field_scale(COEFF_D, v01.out))), LAMBDA y3 :
         Ret(y3.c, Group(x3.out, y3.out))))))))))

\* Field::ternary: a constant condition selects; two constant inputs give a
\* linear combination of the condition; otherwise the result is a witness
\* under the gate condition * (first - second) = witness - second.
field_ternary(c, condition, first, second) ==
    IF is_constant(condition) THEN Ret(c, IF condition.value THEN first ELSE second)
    ELSE IF is_constant(first) /\ is_constant(second)
    THEN Ret(c, Val(condition.mode, IF condition.value THEN first.value ELSE second.value))
    ELSE Bind(field_new(c, Private, IF condition.value THEN first.value ELSE second.value),
              LAMBDA w :
         Bind(enforce(w.c, from_boolean(condition), field_sub(first, second),
                      field_sub(w.out, second)), LAMBDA e :
         Ret(e.c, w.out)))

\* A ternary that takes both coordinates from the condition's choice but
\* witnesses the x coordinate only.
group_ternary_x_only(c, condition, first, second) ==
    Bind(field_ternary(c, condition, first.x, second.x), LAMBDA x :
    Ret(x.c, Group(x.out, IF condition.value THEN first.y ELSE second.y)))

\* Group::ternary
group_ternary(c, condition, first, second) ==
    Bind(field_ternary(c, condition, first.x, second.x), LAMBDA x :
    Bind(field_ternary(x.c, condition, first.y, second.y), LAMBDA y :
    Ret(y.c, Group(x.out, y.out))))

\* The loop of MulAssign<&[Boolean]>, lines 174-178: the output after the
\* first i bits.
RECURSIVE double_and_add(_, _, _, _)
double_and_add(c, base, other, i) ==
    IF i = 0 THEN Ret(c, group_zero)
    ELSE Bind(double_and_add(c, base, other, i - 1), LAMBDA output :
         Bind(group_double(output.c, output.out), LAMBDA doubled :
         Bind(group_add(doubled.c, base, doubled.out), LAMBDA sum :
         group_ternary(sum.c, other[i], sum.out, doubled.out))))

\* A multiplication that reads the bits least-significant first.
mul_assign_bits_le_order(c, self, other) ==
    double_and_add(c, self, Reverse(other), Len(other))

\* MulAssign<&[Boolean]> for Group
mul_assign_bits(c, self, other) == double_and_add(c, self, other, Len(other))

\* Scalar::new: the bits of the value, least significant first.
scalar_new(c, mode, s) ==
    Bind(booleans_new(c, mode, to_bits_le(s, ScalarBits), <<>>), LAMBDA bits :
    Ret(bits.c, [bits_le |-> bits.out]))

\* Scalar::to_bits_be: the stored bits, reversed.
scalar_to_bits_be(s) == Reverse(s.bits_le)

\* MulAssign<&Scalar> for Group
mul_assign(c, self, other) == mul_assign_bits(c, self, scalar_to_bits_be(other))

\* Mul<&Scalar> for Group: output = self; output *= other
group_mul(c, self, other) == mul_assign(c, self, other)

\* Mul<&Group> for Scalar: other * self
scalar_mul(c, self, other) == group_mul(c, other, self)

\* The value of a sequence of bits read most-significant first.
RECURSIVE bits_be_value(_, _)
bits_be_value(bits, acc) ==
    IF bits = <<>> THEN acc
    ELSE bits_be_value(Tail(bits), 2 * acc + b2f(Head(bits)))

BitSeqs == UNION {[1 .. n -> BOOLEAN] : n \in 0 .. ScalarBits}

GroupMulCalls ==
    [op : {"mul", "scalar_mul", "mul_assign"}, mode_a : Modes, mode_b : Modes,
     base : GroupSample, scalar : 0 .. Pow2(ScalarBits) - 1]

GroupBitsCalls ==
    [op : {"mul_bits"}, mode_a : Modes, mode_b : Modes, base : GroupSample, bits : BitSeqs]

GroupTernaryCalls ==
    [op : {"ternary"}, mode_c : Modes, mode_a : Modes, mode_b : Modes,
     condition : BOOLEAN, first : GroupSample, second : GroupSample]

InitGroup ==
    InitGadget /\ call \in GroupMulCalls \cup GroupBitsCalls \cup GroupTernaryCalls

\* Group::new(mode_a, base), Scalar::new(mode_b, scalar)
AllocateMul ==
    /\ call.op \in {"mul", "scalar_mul", "mul_assign"}
    /\ outcome.kind = "none"
    /\ LET a == group_new(circuit, call.mode_a, call.base)
           b == scalar_new(a.c, call.mode_b, call.scalar)
       IN  /\ circuit' = b.c
           /\ outcome' = Allocated([a |-> a.out, b |-> b.out])
    /\ UNCHANGED call
    /\ GadgetFrame

\* Group::new(mode_a, base) and one Boolean::new(mode_b, bit) per bit
AllocateBitsMul ==
    /\ call.op = "mul_bits"
    /\ outcome.kind = "none"
    /\ LET a == group_new(circuit, call.mode_a, call.base)
           b == booleans_new(a.c, call.mode_b, call.bits, <<>>)
       IN  /\ circuit' = b.c
           /\ outcome' = Allocated([a |-> a.out, b |-> b.out])
    /\ UNCHANGED call
    /\ GadgetFrame

\* The circuit and operands of check_ternary before Group::ternary is called.
ternary_operands(c, t) ==
    Bind(boolean_new(c, t.mode_c, t.condition), LAMBDA condition :
    Bind(group_new(condition.c, t.mode_a, t.first), LAMBDA a :
    Bind(group_new(a.c, t.mode_b, t.second), LAMBDA b :
    Ret(b.c, [condition |-> condition.out, a |-> a.out, b |-> b.out]))))

\* Boolean::new(mode_c, condition), Group::new(mode_a, first), Group::new(mode_b, second)
AllocateTernary ==
    /\ call.op = "ternary"
    /\ outcome.kind = "none"
    /\ LET r == ternary_operands(circuit, call)
       IN  /\ circuit' = r.c
           /\ outcome' = Allocated(r.out)
    /\ UNCHANGED call
    /\ GadgetFrame

\* a * b
GroupMul ==
    /\ call.op = "mul"
    /\ outcome.kind = "allocated"
    /\ LET r == group_mul(circuit, outcome.args.a, outcome.args.b)
       IN  /\ circuit' = r.c
           /\ outcome' = Finish(r)
    /\ UNCHANGED call
    /\ GadgetFrame

\* b * a
ScalarMul ==
    /\ call.op = "scalar_mul"
    /\ outcome.kind = "allocated"
    /\ LET r == scalar_mul(circuit, outcome.args.b, outcome.args.a)
       IN  /\ circuit' = r.c
           /\ outcome' = Finish(r)
    /\ UNCHANGED call
    /\ GadgetFrame

\* a *= b
GroupMulAssign ==
    /\ call.op = "mul_assign"
    /\ outcome.kind = "allocated"
    /\ LET r == mul_assign(circuit, outcome.args.a, outcome.args.b)
       IN  /\ circuit' = r.c
           /\ outcome' = Finish(r)
    /\ UNCHANGED call
    /\ GadgetFrame

\* a *= bits
GroupMulAssignBits ==
    /\ call.op = "mul_bits"
    /\ outcome.kind = "allocated"
    /\ LET r == mul_assign_bits(circuit, outcome.args.a, outcome.args.b)
       IN  /\ circuit' = r.c
           /\ outcome' = Finish(r)
    /\ UNCHANGED call
    /\ GadgetFrame

\* Group::ternary(&condition, &a, &b)
GroupTernary ==
    /\ call.op = "ternary"
    /\ outcome.kind = "allocated"
    /\ LET r == group_ternary(circuit, outcome.args.condition, outcome.args.a, outcome.args.b)
       IN  /\ circuit' = r.c
           /\ outcome' = Finish(r)
    /\ UNCHANGED call
    /\ GadgetFrame

NextGroup ==
    \/ AllocateMul \/ AllocateBitsMul \/ AllocateTernary
    \/ GroupMul \/ ScalarMul \/ GroupMulAssign \/ GroupMulAssignBits \/ GroupTernary
    \/ Reset

SpecGroup == InitGroup /\ [][NextGroup]_vars

\* C23: for every point P and scalar s, in every pair of modes, P * s,
\* s * P and P *= s return the native multiple s * P; the loop over any
\* bits, most significant first, returns (the value of the bits) * P, so
\* the empty sequence gives the group zero; the circuit is satisfied.
C23_ScalarMultiple ==
    /\ (call.op \in {"mul", "scalar_mul", "mul_assign"} /\ outcome.kind \in {"done", "halted"}) =>
          /\ outcome.kind = "done"
          /\ group_eject(outcome.out) = affine_mul(call.base, call.scalar)
          /\ is_satisfied(circuit)
    /\ (call.op = "mul_bits" /\ outcome.kind \in {"done", "halted"}) =>
          /\ outcome.kind = "done"
          /\ group_eject(outcome.out) = affine_mul(call.base, bits_be_value(call.bits, 0))
          /\ call.bits = <<>> => outcome.out = group_zero
          /\ is_satisfied(circuit)

\* 6 * P for a point of large order, on a Public point and a Private scalar.
C23_Witness ==
    /\ call.op = "scalar_mul"
    /\ outcome.kind = "done"
    /\ call.mode_a = Public /\ call.mode_b = Private
    /\ call.base = Affine(7, 377)
    /\ call.scalar = 6
    /\ group_eject(outcome.out) = affine_mul(call.base, 6)
    /\ group_eject(outcome.out) # affine_mul(call.base, 3)
    /\ circuit.constraints > 0

\* C24: Group::ternary returns first when the condition is true and second
\* otherwise, for every combination of modes; it adds no constraint and no
\* variable when the condition is Constant or both inputs are Constant, and
\* exactly 2 private variables and 2 constraints in every other case.
C24_Ternary ==
    (call.op = "ternary" /\ outcome.kind \in {"done", "halted"}) =>
        LET before == counts(ternary_operands(EmptyCircuit, call).c)
            after == counts(circuit)
            free == call.mode_c = Constant \/ (call.mode_a = Constant /\ call.mode_b = Constant)
        IN  /\ outcome.kind = "done"
            /\ group_eject(outcome.out) = (IF call.condition THEN call.first ELSE call.second)
            /\ after.constants = before.constants
            /\ after.public = before.public
            /\ after.private = before.private + (IF free THEN 0 ELSE 2)
            /\ after.constraints = before.constraints + (IF free THEN 0 ELSE 2)

\* A Private true condition on a Constant and a Public point that differ.
C24_Witness ==
    /\ call.op = "ternary"
    /\ outcome.kind = "done"
    /\ call.mode_c = Private /\ call.mode_a = Constant /\ call.mode_b = Public
    /\ call.condition
    /\ call.first # call.second
    /\ group_eject(outcome.out) = call.first
    /\ circuit.private = 3
    /\ circuit.constraints = 3
    /\ is_satisfied(circuit)

---------------------------------------------------------------------------
(* Claims that compare one integer operation with another run of it.      *)

\* check_mul, "Commute the operation": Integer::new(mode_a, first),
\* Integer::new(mode_b, second) and first.mul_checked(second), in an
\* environment of its own.
check_mul(signed, mode_a, mode_b, first, second) ==
    Bind(integer_new(EmptyCircuit, mode_a, first), LAMBDA a :
    Bind(integer_new(a.c, mode_b, second), LAMBDA b :
    mul_checked(b.c, signed, a.out, b.out)))

\* C27: mul_checked is commutative: with the modes fixed, exchanging the two
\* values gives the same outcome (a halt in both orders, or a circuit
\* satisfied in both or in neither, and the same product when satisfied)
\* and the same numbers of constants, public variables, private variables
\* and constraints.
C27_MulCommutes ==
    IntegerReturned("mul_checked") =>
        LET commuted == check_mul(call.signed, call.mode_a, call.mode_b, call.b, call.a)
        IN  /\ (outcome.kind = "halted") <=> commuted.halt
            /\ outcome.kind = "halted" => BothConstant
            /\ is_satisfied(circuit) <=> is_satisfied(commuted.c)
            /\ counts(circuit) = counts(commuted.c)
            /\ (outcome.kind = "done" /\ is_satisfied(circuit)) =>
                   eject_value(outcome.out) = eject_value(commuted.out)

\* A negative value times a different positive one, in range, on a Public
\* and a Private operand.
C27_Witness ==
    /\ IntegerReturned("mul_checked")
    /\ outcome.kind = "done"
    /\ call.signed /\ call.mode_a = Public /\ call.mode_b = Private
    /\ native(TRUE, call.a) < 0 /\ native(TRUE, call.b) > 1
    /\ is_satisfied(circuit)
    /\ eject_value(outcome.out) = pattern(native(TRUE, call.a) * native(TRUE, call.b))

---------------------------------------------------------------------------
(* The operators - and * of Integer, in their owned and borrowed forms.    *)

\* A subtraction operator that wraps.
integer_sub_assign_wrapped(c, signed, self, other) == sub_wrapped(c, self, other)

\* SubAssign<&Integer>: *self = self.sub_checked(other); SubAssign<Integer>
\* borrows its operand and does the same.
integer_sub_assign(c, signed, self, other) == sub_checked(c, signed, self, other)

\* Sub in its four forms: output = self.clone(); output -= other
integer_sub(c, signed, self, other) == integer_sub_assign(c, signed, self, other)

\* MulAssign<&Integer>: *self = self.mul_checked(other); MulAssign<Integer>
\* borrows its operand and does the same.
integer_mul_assign(c, signed, self, other) == mul_checked(c, signed, self, other)

\* Mul in its four forms: output = self.clone(); output *= other
integer_mul(c, signed, self, other) == integer_mul_assign(c, signed, self, other)

OperatorOps == {"sub", "sub_assign", "mul", "mul_assign"}

OperatorCalls ==
    [op : OperatorOps, signed : BOOLEAN, mode_a : Modes, mode_b : Modes,
     a : Patterns, b : Patterns]

InitOperator == InitGadget /\ call \in OperatorCalls

\* Integer::new(mode_a, first), Integer::new(mode_b, second)
AllocateOperands ==
    /\ call.op \in OperatorOps
    /\ outcome.kind = "none"
    /\ LET a == integer_new(circuit, call.mode_a, call.a)
           b == integer_new(a.c, call.mode_b, call.b)
       IN  /\ circuit' = b.c
           /\ outcome' = [kind |-> "allocated", args |-> [a |-> a.out, b |-> b.out],
                          before |-> b.c]
    /\ UNCHANGED call
    /\ GadgetFrame

\* The operator applied to the allocated operands.
Operator(op, r) ==
    /\ call.op = op
    /\ outcome.kind = "allocated"
    /\ circuit' = r.c
    /\ outcome' = [IntegerFinish(r) EXCEPT !.before = outcome.before]
    /\ UNCHANGED call
    /\ GadgetFrame

\* a - b
IntegerSub ==
    Operator("sub", integer_sub(circuit, call.signed, outcome.args.a, outcome.args.b))

\* a -= b
IntegerSubAssign ==
    Operator("sub_assign",
             integer_sub_assign(circuit, call.signed, outcome.args.a, outcome.args.b))

\* a * b
IntegerMul ==
    Operator("mul", integer_mul(circuit, call.signed, outcome.args.a, outcome.args.b))

\* a *= b
IntegerMulAssign ==
    Operator("mul_assign",
             integer_mul_assign(circuit, call.signed, outcome.args.a, outcome.args.b))

NextOperator ==
    \/ AllocateOperands
    \/ IntegerSub \/ IntegerSubAssign \/ IntegerMul \/ IntegerMulAssign
    \/ Reset

SpecOperator == InitOperator /\ [][NextOperator]_vars

\* The checked operation on the same operands, in an environment of its own.
checked_operation(t) ==
    Bind(integer_new(EmptyCircuit, t.mode_a, t.a), LAMBDA a :
    Bind(integer_new(a.c, t.mode_b, t.b), LAMBDA b :
    IF t.op \in {"sub", "sub_assign"}
    THEN sub_checked(b.c, t.signed, a.out, b.out)
    ELSE mul_checked(b.c, t.signed, a.out, b.out)))

\* The native checked operation on the values.
native_operation(t) ==
    IF t.op \in {"sub", "sub_assign"}
    THEN checked_sub(t.signed, t.a, t.b)
    ELSE checked_mul(t.signed, t.a, t.b)

\* C28: a - b and a -= b behave as a.sub_checked(b), and a * b and a *= b as
\* a.mul_checked(b): the same halt, the same circuit and the same result;
\* when the native operation overflows or underflows they halt (two
\* constants) or leave the circuit unsatisfied, and otherwise return the
\* native result in a satisfied circuit.
C28_CheckedOperators ==
    (call.op \in OperatorOps /\ outcome.kind \in {"done", "halted"}) =>
        LET checked == checked_operation(call)
        IN  /\ (outcome.kind = "halted") <=> checked.halt
            /\ circuit = checked.c
            /\ outcome.kind = "done" => outcome.out = checked.out
            /\ native_operation(call) = None =>
                   IF BothConstant THEN outcome.kind = "halted"
                   ELSE outcome.kind = "done" /\ ~is_satisfied(circuit)
            /\ native_operation(call) # None =>
                   /\ outcome.kind = "done"
                   /\ is_satisfied(circuit)
                   /\ eject_value(outcome.out) = unwrap(native_operation(call))

\* 0 - 1 on unsigned operands, one Public and one Private: the circuit is
\* unsatisfied although the wrapped difference would be MAX.
C28_Witness ==
    /\ call.op = "sub"
    /\ ~call.signed
    /\ call.mode_a = Public /\ call.mode_b = Private
    /\ call.a = 0 /\ call.b = 1
    /\ outcome.kind = "done"
    /\ ~is_satisfied(circuit)

---------------------------------------------------------------------------
(* Claims about assert, assert_eq and is_satisfied.                        *)

\* What a call that handed the triple <<a, b, cc>> to enforce once leaves.
EnforcedOnce(a, b, cc) ==
    LET r == enforce(outcome.before, a, b, cc)
    IN  /\ circuit = r.c
        /\ outcome.halted = r.halt
        /\ ~outcome.halted =>
              IF AllConstant(<<a, b, cc>>)
              THEN circuit.gates = outcome.before.gates
              ELSE /\ circuit.gates = Append(outcome.before.gates, <<a.value, b.value, cc.value>>)
                   /\ circuit.constraints = outcome.before.constraints + 1

\* C29: assert(boolean) hands the triple boolean * 1 = 1, and assert_eq(a, b)
\* the triple a * 1 = b, to enforce exactly once: a triple with a
\* non-constant term is recorded as that one gate and nothing else changes.
\* When assert(x) returns, the circuit is satisfied only if x is 1; when
\* assert_eq(a, b) returns, only if a and b have the same value.
C29_AssertGates ==
    /\ EnvDid("assert") =>
          LET x == outcome.arg[1]
          IN  /\ EnforcedOnce(x, one, one)
              /\ (~outcome.halted /\ is_satisfied(circuit)) => x.value = 1
    /\ EnvDid("assert_eq") =>
          LET a == outcome.arg[1]
              b == outcome.arg[2]
          IN  /\ EnforcedOnce(a, one, b)
              /\ (~outcome.halted /\ is_satisfied(circuit)) => a.value = b.value

\* assert_eq of a private 1 and a constant 0 in a satisfied circuit: the one
\* gate 1 * 1 = 0 is recorded and the circuit is not satisfied any more.
C29_Witness ==
    /\ EnvDid("assert_eq")
    /\ outcome.arg = <<Val(Private, 1), Val(Constant, 0)>>
    /\ is_satisfied(outcome.before)
    /\ circuit.gates = Append(outcome.before.gates, <<1, 1, 0>>)
    /\ ~is_satisfied(circuit)

\* The gates a step recorded.
Recorded(before, after) ==
    {after.gates[i] : i \in (Len(before.gates) + 1) .. Len(after.gates)}

\* C30: is_satisfied() is true exactly when every gate recorded since the
\* last reset holds. It is true when no gate is recorded and right after a
\* reset; any other operation keeps the recorded gates and leaves the
\* circuit satisfied exactly when it was satisfied and every gate the
\* operation recorded holds; so once it is false it stays false through
\* every allocation, enforce, assert, scope operation and halt until reset.
C30_SatisfiedUntilReset ==
    /\ [](circuit.gates = <<>> => is_satisfied(circuit))
    /\ [](is_satisfied(circuit) <=> \A i \in 1 .. Len(circuit.gates) : gate_holds(circuit.gates[i]))
    /\ [][outcome'.last = "reset" => (circuit'.gates = <<>> /\ is_satisfied(circuit'))]_vars
    /\ [][outcome'.last # "reset" =>
            /\ Len(circuit'.gates) >= Len(circuit.gates)
            /\ SubSeq(circuit'.gates, 1, Len(circuit.gates)) = circuit.gates
            /\ is_satisfied(circuit') <=>
                  (is_satisfied(circuit) /\ \A gate \in Recorded(circuit, circuit') : gate_holds(gate))
            /\ ~is_satisfied(circuit) => ~is_satisfied(circuit')]_vars

\* An unsatisfied gate, then a gate that holds, then a scope: the circuit is
\* still not satisfied.
C30_Witness ==
    /\ EnvDid("scope_enter")
    /\ outcome.steps = 3
    /\ Len(circuit.gates) = 2
    /\ ~gate_holds(circuit.gates[1])
    /\ gate_holds(circuit.gates[2])
    /\ ~is_satisfied(circuit)

===========================================================================
